---- MODULE Spec2Model ----
(***************************************************************************)
(* Model of the concurrent contact-processing pipeline of ai-leads-v2:     *)
(* app/core/create_gmail_drafts.py (error classifier, website fetcher,     *)
(* draft creation, process_contact, the batch orchestrator) and the lead   *)
(* store helpers of app/core/create_zoho_drafts.py that it imports.        *)
(*                                                                         *)
(* Strings are TLA+ strings; Len, SubSeq and \o act on them character by   *)
(* character, so substring tests, lower() and the e-mail pattern are       *)
(* computed as the Python code computes them.                              *)
(***************************************************************************)
EXTENDS Integers, Sequences, FiniteSets, TLC

VARIABLES
    contacts,    \* the contact list handed to create_multiple_gmail_drafts_async
    store,       \* the 'leads' sheet: a sequence of rows, row 1 the header
    orch,        \* locals of create_multiple_gmail_drafts_async
    tasks,       \* the process_contact coroutines of the current batch
    semaphore,   \* free permits of asyncio.Semaphore(MAX_CONCURRENT_WORKERS)
    minted,      \* serial of the last bearer token the token endpoint issued
    call         \* one call of a pure helper: [fn, arg, ret]

vars == <<contacts, store, orch, tasks, semaphore, minted, call>>

(***************************************************************************)
(* Bounds of the model                                                     *)
(***************************************************************************)
\* longest contact list
MaxContacts == 3
\* largest worker limit (MAX_CONCURRENT_WORKERS) a run is configured with
MaxWorkers == 2
\* number of consecutive runs of the batch processor on the same list
MaxRuns == 2

(***************************************************************************)
(* String helpers (Python str semantics)                                   *)
(***************************************************************************)
\* p in s
Contains(s, p) ==
    \E i \in 1..(Len(s) - Len(p) + 1) : SubSeq(s, i, i + Len(p) - 1) = p

CharAt(s, i) == SubSeq(s, i, i)

UpperCase == <<"A","B","C","D","E","F","G","H","I","J","K","L","M",
               "N","O","P","Q","R","S","T","U","V","W","X","Y","Z">>
LowerCase == <<"a","b","c","d","e","f","g","h","i","j","k","l","m",
               "n","o","p","q","r","s","t","u","v","w","x","y","z">>
Digits == {"0","1","2","3","4","5","6","7","8","9"}
Alpha == {"A","B","C","D","E","F","G","H","I","J","K","L","M",
          "N","O","P","Q","R","S","T","U","V","W","X","Y","Z",
          "a","b","c","d","e","f","g","h","i","j","k","l","m",
          "n","o","p","q","r","s","t","u","v","w","x","y","z"}

LowerChar(c) ==
    IF \E k \in 1..26 : UpperCase[k] = c
    THEN LowerCase[CHOOSE k \in 1..26 : UpperCase[k] = c]
    ELSE c

\* str.lower()
RECURSIVE lower(_)
lower(s) ==
    IF s = "" THEN ""
    ELSE IF Len(s) = 1 THEN LowerChar(s)
    ELSE LET half == Len(s) \div 2
         IN  lower(SubSeq(s, 1, half)) \o lower(SubSeq(s, half + 1, Len(s)))

Whitespace == {" ", "\t", "\n"}

\* str.strip() == ''
IsBlank(s) == \A i \in 1..Len(s) : CharAt(s, i) \in Whitespace

\* str.startswith(p)
StartsWith(s, p) == Len(s) >= Len(p) /\ SubSeq(s, 1, Len(p)) = p

(***************************************************************************)
(* is_valid_email: ^[a-zA-Z0-9._%+-]+@[a-zA-Z0-9.-]+\.[a-zA-Z]{2,}$        *)
(***************************************************************************)
\* [a-zA-Z0-9._%+-]
IsLocalChar(c) == c \in Alpha \/ c \in Digits \/ c \in {".", "_", "%", "+", "-"}
\* [a-zA-Z0-9.-]
IsDomainChar(c) == c \in Alpha \/ c \in Digits \/ c \in {".", "-"}

\* "$" of re.match also matches just before a newline that ends the string
BeforeFinalNewline(email) ==
    IF Len(email) > 0 /\ CharAt(email, Len(email)) = "\n"
    THEN SubSeq(email, 1, Len(email) - 1)
    ELSE email

MatchesEmailPattern(email) ==
    LET e == BeforeFinalNewline(email)
    IN  \E at \in 2..Len(e) :
            /\ CharAt(e, at) = "@"
            /\ \A k \in 1..(at - 1) : IsLocalChar(CharAt(e, k))
            /\ \E dot \in (at + 2)..(Len(e) - 2) :
                   /\ CharAt(e, dot) = "."
                   /\ \A k \in (at + 1)..(dot - 1) : IsDomainChar(CharAt(e, k))
                   /\ \A k \in (dot + 1)..Len(e) : CharAt(e, k) \in Alpha

is_valid_email(email) ==
    IF email = "" THEN FALSE ELSE MatchesEmailPattern(email)

(***************************************************************************)
(* is_transient_error                                                      *)
(***************************************************************************)
permanent_patterns == <<
    "invalid email", "malformed", "not found", "forbidden", "unauthorized",
    "permission denied", "invalid request", "bad request",
    "nodename nor servname provided", "name or service not known",
    "no address associated with hostname", "name resolution failed",
    "host not found", "domain not found", "cannot resolve hostname",
    "getaddrinfo failed", "cannot connect to host", "connection refused",
    "ssl", "certificate", "tlsv1_alert", "ssl handshake", "[none]",
    "internal error" >>

transient_patterns == <<
    "timeout", "network unreachable", "temporary failure",
    "service unavailable", "bad gateway", "gateway timeout",
    "too many requests", "rate limit", "quota exceeded", "server error",
    "internal server error", "unexpected result format",
    "token may have expired", "authentication failed" >>

MatchesAny(patterns, s) ==
    \E k \in 1..Len(patterns) : Contains(s, patterns[k])

\* a variant: the transient patterns are looked for first
is_transient_error_TransientFirst(error_message) ==
    LET error_lower == lower(error_message)
    IN  IF error_message = "" \/ IsBlank(error_message) THEN TRUE
        ELSE IF MatchesAny(transient_patterns, error_lower) THEN TRUE
        ELSE FALSE

is_transient_error(error_message) ==
    LET error_lower == lower(error_message)
    IN  IF error_message = "" \/ IsBlank(error_message) THEN TRUE
        ELSE IF MatchesAny(permanent_patterns, error_lower) THEN FALSE
        ELSE IF MatchesAny(transient_patterns, error_lower) THEN TRUE
        ELSE FALSE

(***************************************************************************)
(* The lead store (create_zoho_drafts.py), on the table get_sheet_data     *)
(* returns: a list of rows, each a list of cell strings, row 1 the header. *)
(***************************************************************************)
\* list.index(name), 1-based; 0 stands for ValueError
IndexOf(headers, name) ==
    IF \E i \in 1..Len(headers) : headers[i] = name
    THEN CHOOSE i \in 1..Len(headers) :
             headers[i] = name /\ \A j \in 1..(i - 1) : headers[j] # name
    ELSE 0

\* while len(row) < len(headers): row.append('')
PadRow(row, n) ==
    IF Len(row) < n THEN row \o [k \in 1..(n - Len(row)) |-> ""] ELSE row

\* a variant: the table written back is one read before the other marks were
\* made, so only the rows of this email carry a flag
update_lead_emailed_status_Stale(existing_data, email) ==
    IF existing_data = <<>> THEN existing_data
    ELSE LET headers == existing_data[1]
             email_index == IndexOf(headers, "Email")
             emailed_index == IndexOf(headers, "Emailed?")
         IN  [i \in 1..Len(existing_data) |->
                 IF i = 1 THEN headers
                 ELSE [PadRow(existing_data[i], Len(headers)) EXCEPT ![emailed_index] =
                          IF existing_data[i][email_index] = email THEN "True" ELSE ""]]

\* The table in the sheet after update_lead_emailed_status(service, id, email)
\* returned without raising, given the table it read.
update_lead_emailed_status(existing_data, email) ==
    IF existing_data = <<>> THEN existing_data
    ELSE LET headers == existing_data[1]
             email_index == IndexOf(headers, "Email")
             emailed_index == IndexOf(headers, "Emailed?")
             padded == [i \in 1..Len(existing_data) |->
                           IF i = 1 THEN headers
                           ELSE PadRow(existing_data[i], Len(headers))]
             rows_updated ==
                 Cardinality({i \in 2..Len(padded) : padded[i][email_index] = email})
         IN  IF email_index = 0 \/ emailed_index = 0 THEN existing_data
             ELSE IF rows_updated > 0
                  THEN [i \in 1..Len(padded) |->
                           IF i > 1 /\ padded[i][email_index] = email
                           THEN [padded[i] EXCEPT ![emailed_index] = "True"]
                           ELSE padded[i]]
                  ELSE existing_data

\* a variant: the lookup never finds a marked row
check_if_already_emailed_Never(existing_data, email) == FALSE

\* check_if_already_emailed as process_contact imports it (create_zoho_drafts):
\* a read-only lookup.
check_if_already_emailed(existing_data, email) ==
    IF existing_data = <<>> THEN FALSE
    ELSE LET headers == existing_data[1]
             email_index == IndexOf(headers, "Email")
             emailed_index == IndexOf(headers, "Emailed?")
         IN  IF email_index = 0 \/ emailed_index = 0 THEN FALSE
             ELSE \E i \in 2..Len(existing_data) :
                      LET row == existing_data[i] IN
                      /\ Len(row) >= email_index
                      /\ row[email_index] = email
                      /\ Len(row) >= emailed_index
                      /\ lower(row[emailed_index]) = "true"

\* Rows of the store whose Email cell is the given email / that are marked.
RowsOf(table, email) ==
    {i \in 2..Len(table) :
        Len(table[i]) >= IndexOf(table[1], "Email")
        /\ table[i][IndexOf(table[1], "Email")] = email}

RowMarked(table, i) ==
    /\ Len(table[i]) >= IndexOf(table[1], "Emailed?")
    /\ lower(table[i][IndexOf(table[1], "Emailed?")]) = "true"

(***************************************************************************)
(* Configuration (create_gmail_drafts.py).  The worker limit and the       *)
(* refresh cadence are scaled down so that a list of MaxContacts contacts  *)
(* spans several batches, waits on the semaphore and reaches a refresh     *)
(* checkpoint: the source sets MAX_CONCURRENT_WORKERS = 3 (line 22) and    *)
(* REFRESH_INTERVAL = 10 (line 769).  The worker limit of a run is         *)
(* orch.MAX_CONCURRENT_WORKERS, drawn from 1..MaxWorkers.                  *)
(***************************************************************************)
REFRESH_INTERVAL == 2
\* max_retries passed by process_contact to fetch_website_with_retries
FETCH_MAX_RETRIES == 1
\* max_api_retries of create_draft_with_http_async
max_api_retries == 2

(***************************************************************************)
(* What the outside world can answer                                       *)
(***************************************************************************)
Resp(kind, status, text) == [kind |-> kind, status |-> status, text |-> text]
NoResp == Resp("none", 0, "")

\* answers to the GET of fetch_website_with_retries
FetchResponses == {
    Resp("status", 200, "<html>Acme Bakery</html>"),
    Resp("status", 200, " "),
    Resp("status", 404, ""),
    Resp("status", 403, ""),
    Resp("status", 429, ""),
    Resp("status", 503, ""),
    Resp("timeout", 0, ""),
    Resp("client_error", 0, "Cannot connect to host example.com:443 ssl:default [Connection refused]"),
    Resp("exception", 0, "Server disconnected") }

\* the answers drawn in runs of the whole batch processor
BatchFetchResponses == {
    Resp("status", 200, "<html>Acme Bakery</html>"),
    Resp("status", 404, ""),
    Resp("timeout", 0, "") }

\* answers to the POST of create_draft_with_http_async
DraftResponses == {
    Resp("status", 200, ""),
    Resp("status", 400, "Bad Request"),
    Resp("status", 401, "Invalid Credentials"),
    Resp("status", 403, "ACCESS_TOKEN_SCOPE_INSUFFICIENT"),
    Resp("status", 429, "Rate Limit Exceeded"),
    Resp("status", 500, "Backend Error"),
    Resp("status", 503, "Service Unavailable"),
    Resp("timeout", 0, ""),
    Resp("exception", 0, "Server disconnected") }

BatchDraftResponses == {
    Resp("status", 200, ""),
    Resp("status", 401, "Invalid Credentials") }

\* create_customized_email as process_contact sees it: it returns, or raises the
\* given message ("'community'" is the KeyError of the template lookup)
PipelineOutcomes == {"ok", "Request timeout while rendering", "'community'"}

\* a Sheets call returns, or raises the given message
StoreOutcomes == {"ok", "Quota exceeded for quota metric 'Read requests'",
                  "HttpError 500 Internal error encountered"}

BatchStoreOutcomes == {"ok", "Quota exceeded for quota metric 'Read requests'"}

\* the token endpoint answers 200, or refuses with the given text
TokenOutcomes == {"ok", "invalid_grant"}

(***************************************************************************)
(* get_access_token / refresh_access_token                                 *)
(***************************************************************************)
\* refresh_access_token raises TokenExpiredError with this message
RefreshErrorText(text) ==
    "Failed to refresh access token: Failed to get access token: " \o text

(***************************************************************************)
(* fetch_website_with_retries, one pass of its loop: what the call does    *)
(* with the answer to the GET of the given attempt.                        *)
(***************************************************************************)
FetchRet(next, success, content, error) ==
    [next |-> next, success |-> success, content |-> content, error |-> error]

\* a variant: every status is taken as worth another attempt
RetryableStatus_Any(status) == TRUE

\* not (response.status < 500 and response.status not in (408, 429))
RetryableStatus(status) == ~(status < 500 /\ status \notin {408, 429})

\* await asyncio.sleep(2) before the next GET
FETCH_RETRY_DELAY == 2

\* a variant: a 404 is retried and reported like any other status
fetch_attempt_No404(resp, attempt, max_retries) ==
    LET retry_or(err) == IF attempt < max_retries
                         THEN FetchRet("retry", FALSE, "", err)
                         ELSE FetchRet("return", FALSE, "", err)
    IN  CASE resp.kind = "status" /\ resp.status >= 200 /\ resp.status < 300 ->
                 IF resp.text # "" /\ ~IsBlank(resp.text)
                 THEN FetchRet("return", TRUE, resp.text, "")
                 ELSE retry_or("Received empty content")
          [] resp.kind = "status" ->
                 IF ~(RetryableStatus(resp.status) \/ resp.status = 404)
                 THEN FetchRet("return", FALSE, "", "HTTP " \o ToString(resp.status))
                 ELSE retry_or("HTTP " \o ToString(resp.status))
          [] resp.kind = "timeout" -> retry_or("Timeout error")
          [] resp.kind = "client_error" ->
                 FetchRet("return", FALSE, "", "Client error: " \o resp.text)
          [] OTHER ->
                 FetchRet("return", FALSE, "", "Unexpected error: " \o resp.text)

fetch_attempt(resp, attempt, max_retries) ==
    LET retry_or(err) == IF attempt < max_retries
                         THEN FetchRet("retry", FALSE, "", err)
                         ELSE FetchRet("return", FALSE, "", err)
    IN  CASE resp.kind = "status" /\ resp.status >= 200 /\ resp.status < 300 ->
                 IF resp.text # "" /\ ~IsBlank(resp.text)
                 THEN FetchRet("return", TRUE, resp.text, "")
                 ELSE retry_or("Received empty content")
          [] resp.kind = "status" /\ resp.status = 404 ->
                 FetchRet("return", FALSE, "", "Page not found (404)")
          [] resp.kind = "status" ->
                 IF ~RetryableStatus(resp.status)
                 THEN FetchRet("return", FALSE, "", "HTTP " \o ToString(resp.status))
                 ELSE retry_or("HTTP " \o ToString(resp.status))
          [] resp.kind = "timeout" -> retry_or("Timeout error")
          [] resp.kind = "client_error" ->
                 FetchRet("return", FALSE, "", "Client error: " \o resp.text)
          [] OTHER ->
                 FetchRet("return", FALSE, "", "Unexpected error: " \o resp.text)

(***************************************************************************)
(* create_draft_with_http_async, one pass of its loop: what the call does  *)
(* with the answer to the POST of the given attempt.  tok is the answer of *)
(* the token endpoint if the pass refreshes, fresh the token it would mint.*)
(***************************************************************************)
DraftRet(next, success, error, token, refreshed) ==
    [next |-> next, success |-> success, error |-> error, token |-> token,
     refreshed |-> refreshed]

\* a variant: the refreshed token is dropped
RefreshedToken_Dropped(current_token, fresh) == current_token

\* current_token = await refresh_access_token(...)
RefreshedToken(current_token, fresh) == fresh

\* a variant: one more attempt is allowed
BudgetLeft_OneMore(attempt) == attempt <= max_api_retries

\* attempt < max_api_retries
BudgetLeft(attempt) == attempt < max_api_retries

\* the branch of the auth errors: a 401, or "token" in the error text
IsAuthError(resp) ==
    /\ resp.kind = "status"
    /\ resp.status \notin {200, 201}
    /\ \/ resp.status = 401
       \/ Contains(lower("Error creating draft: " \o ToString(resp.status)
                             \o " - " \o resp.text), "token")

\* the seconds slept before the next POST, when the pass ends in a retry
draft_retry_delay(resp, attempt) ==
    IF IsAuthError(resp) THEN 2 ELSE 3 * (attempt + 1)

\* a variant: a failed refresh is swallowed and the request is sent again
RefreshFailure_Swallowed(error_msg, current_token) ==
    DraftRet("retry", FALSE, error_msg, current_token, FALSE)

\* lines 327-330 and 352-355: refresh_access_token raised, the call returns
RefreshFailure(error_msg, current_token) ==
    DraftRet("return", FALSE, error_msg, current_token, FALSE)

draft_attempt(resp, attempt, current_token, creds, tok, fresh) ==
    LET error_msg == "Error creating draft: " \o ToString(resp.status) \o " - " \o resp.text
        timeout_msg == "Timeout error connecting to Gmail API: "
    IN  CASE resp.kind = "status" /\ resp.status \in {200, 201} ->
                 DraftRet("return", TRUE, "", current_token, FALSE)
          [] IsAuthError(resp) ->
                 IF creds /\ BudgetLeft(attempt)
                 THEN IF tok = "ok"
                      THEN DraftRet("retry", FALSE, error_msg,
                                    RefreshedToken(current_token, fresh), TRUE)
                      ELSE RefreshFailure("Token refresh failed: " \o RefreshErrorText(tok),
                                          current_token)
                 ELSE DraftRet("return", FALSE,
                               "TokenExpiredError: Gmail API token may have expired ("
                                   \o error_msg \o ")",
                               current_token, FALSE)
          [] resp.kind = "status" ->
                 IF resp.status >= 500 /\ BudgetLeft(attempt)
                 THEN DraftRet("retry", FALSE,
                               "Received " \o ToString(resp.status) \o " from Gmail API, retrying...",
                               current_token, FALSE)
                 ELSE DraftRet("return", FALSE, error_msg, current_token, FALSE)
          [] resp.kind = "timeout" ->
                 IF creds /\ BudgetLeft(attempt)
                 THEN IF tok = "ok"
                      THEN DraftRet("retry", FALSE, timeout_msg,
                                    RefreshedToken(current_token, fresh), TRUE)
                      ELSE RefreshFailure("Token refresh after timeout failed: "
                                              \o RefreshErrorText(tok),
                                          current_token)
                 ELSE IF BudgetLeft(attempt)
                      THEN DraftRet("retry", FALSE, timeout_msg, current_token, FALSE)
                      ELSE DraftRet("return", FALSE, timeout_msg, current_token, FALSE)
          [] OTHER ->
                 DraftRet("return", FALSE,
                          "Error in create_draft_with_http_async: " \o resp.text,
                          current_token, FALSE)

(***************************************************************************)
(* The error messages the calls above can hand to is_transient_error, and  *)
(* its verdict on each, computed once.                                     *)
(***************************************************************************)
KnownMessages ==
    {fetch_attempt(r, a, FETCH_MAX_RETRIES).error :
        r \in FetchResponses, a \in 0..FETCH_MAX_RETRIES}
    \cup {draft_attempt(r[1], a, 0, r[2], r[3], 0).error :
            r \in DraftResponses \X BOOLEAN \X TokenOutcomes, a \in 0..max_api_retries}
    \cup PipelineOutcomes \cup StoreOutcomes

Verdicts == [m \in KnownMessages |-> is_transient_error(m)]

\* is_transient_error(m), looked up when m is a known message
Transient(m) == IF m \in KnownMessages THEN Verdicts[m] ELSE is_transient_error(m)

(***************************************************************************)
(* process_contact: one coroutine per contact of the batch.  Its code runs *)
(* without interruption between two awaits (the store helpers, the token   *)
(* refresh and create_customized_email are blocking calls), so one action  *)
(* is one such stretch.                                                    *)
(*   pc: waiting      at "async with semaphore"                            *)
(*       fetching     in fetch_website_with_retries, GET (or its delay)    *)
(*       posting      in create_draft_with_http_async, POST (or its delay) *)
(*       final_sleep  in the finally clause, result computed               *)
(*       cancel_sleep in the finally clause after a CancelledError         *)
(*       done / cancelled                                                  *)
(***************************************************************************)
Ret(success, error, token) == [success |-> success, error |-> error, token |-> token]

NewTask(i, contact, access_token, session, sheets_service) ==
    [i |-> i, website |-> contact.website, email |-> contact.email,
     pc |-> "waiting", attempt |-> 0, creds |-> TRUE,
     current_token |-> access_token, session |-> session,
     sheets_service |-> sheets_service,
     ret |-> Ret(FALSE, "", 0),
     \* what happened, for the properties
     gets |-> 0, posts |-> 0, pipeline |-> 0, refreshes |-> 0,
     stage |-> "none", last |-> NoResp, classified |-> "none",
     was_marked |-> FALSE, marked |-> FALSE, mark_failed |-> FALSE,
     stop_raised |-> FALSE, refresh_failed |-> FALSE]

InSection(t) == t.pc \in {"fetching", "posting", "final_sleep", "cancel_sleep"}
\* a variant: the wait ends while cancelled tasks are still in their finally clause
Finished_Early(t) == t.pc \in {"done", "cancelled", "cancel_sleep"}

Finished(t) == t.pc \in {"done", "cancelled"}

\* try: update_lead_emailed_status(...)  except Exception: logging.error(...)
TryMark(table, email, so) ==
    IF so = "ok" THEN update_lead_emailed_status(table, email) ELSE table

Classification(transient) == IF transient THEN "transient" ELSE "permanent"

\* The task at its return statement: the result tuple, and whether the
\* update of the store was called and whether it raised.
Conclude(t, ret, classified, mark_called, so) ==
    [t EXCEPT !.pc = "final_sleep", !.ret = ret, !.classified = classified,
              !.marked = mark_called /\ so = "ok",
              !.mark_failed = mark_called /\ so # "ok"]

\* a variant: every failure exit marks the contact
FailureExit_AlwaysMark(t, table, error_message, classified_msg, so) ==
    << Conclude(t, Ret(FALSE, error_message, t.current_token),
                Classification(Transient(classified_msg)), TRUE, so),
       TryMark(table, t.email, so) >>

\* "if not is_transient_error(msg): try update ...; return False, ..., error_message"
\* the shape shared by the failure exits of process_contact.  Gives <<task, store>>.
FailureExit(t, table, error_message, classified_msg, so) ==
    LET transient == Transient(classified_msg)
    IN  << Conclude(t, Ret(FALSE, error_message, t.current_token),
                    Classification(transient), ~transient, so),
           IF transient THEN table ELSE TryMark(table, t.email, so) >>

\* Lines 574-597: acquire the permit, validate, look the contact up, start the GET.
\* so1 is the outcome of the first store call, so2 of the one in the handler.
EnterResult(t, table, so1, so2) ==
    IF ~is_valid_email(t.email)
    THEN IF so1 = "ok"
         THEN << Conclude([t EXCEPT !.stage = "validate"],
                          Ret(FALSE, "Invalid email format, skipping: " \o t.email,
                              t.current_token),
                          "permanent", TRUE, "ok"),
                 update_lead_emailed_status(table, t.email) >>
         ELSE FailureExit([t EXCEPT !.stage = "store"], table, so1, so1, so2)
    ELSE IF so1 # "ok"
    THEN FailureExit([t EXCEPT !.stage = "store"], table, so1, so1, so2)
    ELSE IF check_if_already_emailed(table, t.email)
    THEN << Conclude([t EXCEPT !.stage = "already"],
                     Ret(TRUE, "Already emailed", t.current_token),
                     "none", FALSE, "ok"),
            table >>
    ELSE << [t EXCEPT !.pc = "fetching", !.attempt = 0, !.gets = 1], table >>

\* a variant: the permit is taken without waiting for one
SemaphoreFree_Always(permits) == TRUE

\* asyncio.Semaphore.acquire returns without waiting
SemaphoreFree(permits) == permits > 0

Enter(k, so1, so2) ==
    /\ k \in 1..Len(tasks)
    /\ tasks[k].pc = "waiting"
    /\ SemaphoreFree(semaphore)
    /\ so1 = "ok" => so2 = "ok"      \* the handler's store call is not reached
    /\ LET t == [tasks[k] EXCEPT
                    !.was_marked = \E i \in RowsOf(store, tasks[k].email) : RowMarked(store, i)]
           r == EnterResult(t, store, so1, so2)
       IN  /\ tasks' = [tasks EXCEPT ![k] = r[1]]
           /\ store' = r[2]
    /\ semaphore' = semaphore - 1
    /\ UNCHANGED <<contacts, orch, minted, call>>

\* Lines 637-678 once create_draft_with_http_async has returned d.
DraftReturn(t, table, d, so) ==
    LET t1 == [t EXCEPT !.current_token = d.token, !.stage = "draft"]
    IN  IF d.success
        THEN << Conclude(t1, Ret(TRUE, "", d.token), "none", TRUE, so),
                TryMark(table, t.email, so) >>
        ELSE FailureExit(t1, table, "Failed to create draft: " \o d.error, d.error, so)

\* a variant: the pipeline and the draft request follow a failed fetch too
FetchReturn_Regardless(t, table, f, pipe, so) ==
    << [t EXCEPT !.pc = "posting", !.attempt = 0, !.pipeline = 1, !.posts = 1],
       table >>

\* Lines 597-647 once the fetch has returned f: the failure exit, the content
\* pipeline, and the start of the draft request.
FetchReturn(t, table, f, pipe, so) ==
    IF ~f.success
    THEN FailureExit([t EXCEPT !.stage = "fetch"], table,
                     "Failed to fetch website " \o t.website \o ": " \o f.error,
                     f.error, so)
    ELSE IF pipe # "ok"
    THEN FailureExit([t EXCEPT !.stage = "pipeline", !.pipeline = 1], table,
                     "Failed to create customized email: " \o pipe, pipe, so)
    ELSE IF ~is_valid_email(t.email)
    THEN DraftReturn([t EXCEPT !.pipeline = 1], table,
                     DraftRet("return", FALSE, "Invalid email format: " \o t.email,
                              t.current_token, FALSE), so)
    ELSE << [t EXCEPT !.pc = "posting", !.attempt = 0, !.pipeline = 1, !.posts = 1],
            table >>

\* The GET of the current attempt is answered.
FetchResp(k, resp, pipe, so) ==
    /\ k \in 1..Len(tasks)
    /\ tasks[k].pc = "fetching"
    /\ LET t == [tasks[k] EXCEPT !.last = resp]
           f == fetch_attempt(resp, t.attempt, FETCH_MAX_RETRIES)
           r == IF f.next = "retry"
                THEN << [t EXCEPT !.attempt = @ + 1, !.gets = @ + 1], store >>
                ELSE FetchReturn(t, store, f, pipe, so)
       IN  \* the pipeline and the store are reached on some paths only
           /\ pipe # "ok" => f.next = "return" /\ f.success
           /\ so # "ok" => /\ f.next = "return"
                           /\ IF f.success THEN pipe # "ok" \/ ~is_valid_email(t.email)
                              ELSE TRUE
           /\ tasks' = [tasks EXCEPT ![k] = r[1]]
           /\ store' = r[2]
    /\ UNCHANGED <<contacts, orch, semaphore, minted, call>>

\* The POST of the current attempt is answered.
DraftResp(k, resp, tok, so) ==
    /\ k \in 1..Len(tasks)
    /\ tasks[k].pc = "posting"
    /\ LET t == [tasks[k] EXCEPT !.last = resp]
           d == draft_attempt(resp, t.attempt, t.current_token, t.creds, tok, minted + 1)
           d_ok == draft_attempt(resp, t.attempt, t.current_token, t.creds, "ok", minted + 1)
           r == IF d.next = "retry"
                THEN << [t EXCEPT !.attempt = @ + 1, !.posts = @ + 1,
                                  !.current_token = d.token,
                                  !.refreshes = @ + (IF d.refreshed THEN 1 ELSE 0)],
                        store >>
                ELSE DraftReturn(t, store, d, so)
       IN  \* the token endpoint and the store are reached on some paths only
           /\ tok # "ok" => d_ok.refreshed
           /\ so # "ok" => d.next = "return"
           /\ tasks' = [tasks EXCEPT ![k] = [r[1] EXCEPT !.refresh_failed = (tok # "ok")]]
           /\ store' = r[2]
           /\ minted' = IF d.refreshed THEN minted + 1 ELSE minted
    /\ UNCHANGED <<contacts, orch, semaphore, call>>

\* Lines 712-714: the delay of the finally clause ends, the permit is released.
FinalSleep(k) ==
    /\ k \in 1..Len(tasks)
    /\ tasks[k].pc \in {"final_sleep", "cancel_sleep"}
    /\ tasks' = [tasks EXCEPT ![k].pc =
                    IF tasks[k].pc = "final_sleep" THEN "done" ELSE "cancelled"]
    /\ semaphore' = semaphore + 1
    /\ UNCHANGED <<contacts, store, orch, minted, call>>

(***************************************************************************)
(* create_multiple_gmail_drafts_async                                      *)
(*   pc: idle        not yet called                                        *)
(*       loop        at the head of the while loop                         *)
(*       start       past the refresh checkpoint, about to build the batch *)
(*       gather      awaiting wait_for over gather of the tasks            *)
(*       cancelling  the timeout fired, wait_for awaits the cancelled tasks*)
(*       done        returned (session closed by the finally clause)       *)
(*       aborted     left by an exception before the session was created   *)
(***************************************************************************)
\* a variant: a batch of no contact
Min_Zero(a, b) == 0

Min(a, b) == IF a < b THEN a ELSE b

Max(a, b) == IF a > b THEN a ELSE b

\* lines 745-746 and 469-470
NormalizeWebsite(website) ==
    IF StartsWith(website, "http://") \/ StartsWith(website, "https://")
    THEN website ELSE "https://" \o website

\* a variant: every contact is kept
FilterContacts_KeepAll(cs) ==
    [i \in 1..Len(cs) |->
        [website |-> NormalizeWebsite(cs[i].website), email |-> cs[i].email]]

\* lines 740-749
RECURSIVE FilterContacts(_)
FilterContacts(cs) ==
    IF cs = <<>> THEN <<>>
    ELSE LET c == Head(cs) IN
         IF is_valid_email(c.email)
         THEN <<[website |-> NormalizeWebsite(c.website), email |-> c.email]>>
                  \o FilterContacts(Tail(cs))
         ELSE FilterContacts(Tail(cs))

MarkedEmails(table) ==
    {table[i][IndexOf(table[1], "Email")] :
        i \in {j \in 2..Len(table) :
                  Len(table[j]) >= IndexOf(table[1], "Email") /\ RowMarked(table, j)}}

IdleOrch(run, workers) ==
    [pc |-> "idle", run |-> run, MAX_CONCURRENT_WORKERS |-> workers,
     filtered_contacts |-> <<>>,
     current_index |-> 0, total_processed |-> 0, total_success |-> 0,
     total_failed |-> 0, contacts_since_refresh |-> 0,
     access_token |-> 0, sheets_service |-> 0,
     session |-> 0, closed |-> {}, sessions_made |-> 0,
     stopped |-> FALSE, refreshed_at_checkpoint |-> FALSE,
     \* what happened, for the properties
     batches_timed_out |-> 0, marked_at_start |-> {}, marked_initially |-> {},
     previous |-> "none", handed |-> <<>>]

\* Lines 733-770.  tok is the token endpoint's answer to get_access_token.
StartRun(tok) ==
    /\ orch.pc = "idle"
    /\ LET filtered == FilterContacts(contacts)
           o == [orch EXCEPT !.marked_at_start = MarkedEmails(store),
                             !.marked_initially =
                                 IF orch.run = 1 THEN MarkedEmails(store) ELSE @,
                             !.sheets_service = 1]
       IN  IF tok # "ok"
           THEN /\ orch' = [o EXCEPT !.pc = "aborted"]
                /\ UNCHANGED <<semaphore, minted>>
           ELSE /\ minted' = minted + 1
                /\ IF filtered = <<>>
                   THEN /\ orch' = [o EXCEPT !.pc = "done", !.access_token = minted + 1]
                        /\ UNCHANGED semaphore
                   ELSE /\ orch' = [o EXCEPT !.pc = "loop",
                                             !.access_token = minted + 1,
                                             !.filtered_contacts = filtered,
                                             !.session = 1, !.sessions_made = 1]
                        /\ semaphore' = orch.MAX_CONCURRENT_WORKERS
    /\ UNCHANGED <<contacts, store, tasks, call>>

\* a variant: the checkpoint is never due
CheckpointDue_Never(n) == FALSE

\* line 775: contacts_since_refresh >= REFRESH_INTERVAL
CheckpointDue(n) == n >= REFRESH_INTERVAL

\* a variant: the handler of a failed refresh resets the counter as well
AfterFailedRefresh_Reset(o) ==
    [o EXCEPT !.closed = @ \cup {o.session},
              !.session = o.sessions_made + 1,
              !.sessions_made = @ + 1,
              !.contacts_since_refresh = 0]

\* lines 791-799: the handler of a failed refresh closes the session and
\* creates another
AfterFailedRefresh(o) ==
    [o EXCEPT !.closed = @ \cup {o.session},
              !.session = o.sessions_made + 1,
              !.sessions_made = @ + 1]

\* Lines 774-799: the refresh checkpoint.  healthy is is_session_healthy's answer,
\* tok the token endpoint's, sheets whether refresh_sheets_service returns.
Checkpoint(healthy, tok, sheets) ==
    /\ orch.pc = "loop"
    /\ orch.current_index < Len(orch.filtered_contacts)
    /\ CheckpointDue(orch.contacts_since_refresh)
    /\ LET o1 == IF healthy THEN orch
                 ELSE [orch EXCEPT !.closed = @ \cup {orch.session},
                                   !.session = orch.sessions_made + 1,
                                   !.sessions_made = @ + 1]
           o2 == IF tok = "ok" THEN [o1 EXCEPT !.access_token = minted + 1] ELSE o1
           ok == tok = "ok" /\ sheets
           o3 == IF ok
                 THEN [o2 EXCEPT !.sheets_service = @ + 1,
                                 !.contacts_since_refresh = 0]
                 ELSE AfterFailedRefresh(o2)
       IN  /\ orch' = [o3 EXCEPT !.pc = "start", !.refreshed_at_checkpoint = ok]
           /\ minted' = IF tok = "ok" THEN minted + 1 ELSE minted
    /\ UNCHANGED <<contacts, store, tasks, semaphore, call>>

\* Lines 801-830: build the batch and await it.
StartBatch ==
    /\ \/ orch.pc = "start"
       \/ /\ orch.pc = "loop"
          /\ ~CheckpointDue(orch.contacts_since_refresh)
    /\ orch.current_index < Len(orch.filtered_contacts)
    /\ LET batch_size == Min(orch.MAX_CONCURRENT_WORKERS * 2,
                             Len(orch.filtered_contacts) - orch.current_index)
       IN  tasks' = [k \in 1..batch_size |->
                        NewTask(orch.current_index + k,
                                orch.filtered_contacts[orch.current_index + k],
                                orch.access_token, orch.session, orch.sheets_service)]
    /\ orch' = [orch EXCEPT !.pc = "gather",
                            !.handed = @ \o [k \in 1..Len(tasks') |-> tasks'[k].i]]
    /\ UNCHANGED <<contacts, store, semaphore, minted, call>>

\* a variant: a failed contact is counted as processed only
ProcessResults_SuccessOnly(results, k, o) ==
    [o EXCEPT !.total_success =
                  @ + Cardinality({j \in k..Len(results) : results[j].success}),
              !.total_processed = @ + Len(results) - k + 1]

\* Lines 855-893: the loop over the results, up to a SESSION_STOPPED result.
RECURSIVE ProcessResults(_, _, _)
ProcessResults(results, k, o) ==
    IF k > Len(results) THEN o
    ELSE LET r == results[k]
             o1 == IF r.token # 0 /\ r.token # o.access_token
                   THEN [o EXCEPT !.access_token = r.token] ELSE o
         IN  IF r.error = "SESSION_STOPPED"
             THEN [o1 EXCEPT !.stopped = TRUE]
             ELSE ProcessResults(results, k + 1,
                      [o1 EXCEPT !.total_success = @ + (IF r.success THEN 1 ELSE 0),
                                 !.total_failed = @ + (IF r.success THEN 0 ELSE 1),
                                 !.total_processed = @ + 1])

\* a variant: the function returns with the session left open
CloseSession_Leak(o) == [o EXCEPT !.pc = "done"]

\* Lines 831-838 and 912-916 on "return": close the session.
CloseSession(o) ==
    [o EXCEPT !.pc = "done", !.closed = @ \cup {o.session}]

\* a variant: the wait ends as soon as one task has returned
GatherComplete_FirstDone(ts) == \E k \in 1..Len(ts) : ts[k].pc = "done"

\* asyncio.gather(*tasks, return_exceptions=True) has its result
GatherComplete(ts) == \A k \in 1..Len(ts) : ts[k].pc = "done"

\* Lines 840-901: every task of the batch has returned.
GatherDone ==
    /\ orch.pc = "gather"
    /\ GatherComplete(tasks)
    /\ LET o == ProcessResults([k \in 1..Len(tasks) |-> tasks[k].ret], 1, orch)
       IN  orch' = IF o.stopped THEN CloseSession(o)
                   ELSE [o EXCEPT !.pc = "loop",
                                  !.current_index = @ + Len(tasks),
                                  !.contacts_since_refresh = @ + Len(tasks)]
    /\ tasks' = <<>>
    /\ UNCHANGED <<contacts, store, semaphore, minted, call>>

\* wait_for's timeout fires: gather is cancelled and with it every task that has
\* not returned; a task inside the semaphore runs its finally clause first.
BatchTimeout ==
    /\ orch.pc = "gather"
    /\ \E k \in 1..Len(tasks) : tasks[k].pc # "done"
    /\ tasks' = [k \in 1..Len(tasks) |->
                    CASE tasks[k].pc = "waiting" -> [tasks[k] EXCEPT !.pc = "cancelled"]
                      [] tasks[k].pc \in {"fetching", "posting"} ->
                             [tasks[k] EXCEPT !.pc = "cancel_sleep"]
                      [] tasks[k].pc = "final_sleep" -> [tasks[k] EXCEPT !.pc = "cancelled"]
                      [] OTHER -> tasks[k]]
    /\ semaphore' = semaphore + Cardinality({k \in 1..Len(tasks) : tasks[k].pc = "final_sleep"})
    /\ orch' = [orch EXCEPT !.pc = "cancelling"]
    /\ UNCHANGED <<contacts, store, minted, call>>

\* a variant: the contacts of the timed-out batch are not counted
TimeoutHandled_NoCount ==
    /\ orch.pc = "cancelling"
    /\ \A k \in 1..Len(tasks) : Finished(tasks[k])
    /\ orch' = [orch EXCEPT !.pc = "loop",
                            !.batches_timed_out = @ + 1,
                            !.current_index = @ + Len(tasks),
                            !.contacts_since_refresh = @ + Len(tasks)]
    /\ tasks' = <<>>
    /\ UNCHANGED <<contacts, store, semaphore, minted, call>>

\* Lines 831-838: the cancelled tasks have ended, wait_for raises TimeoutError.
TimeoutHandled ==
    /\ orch.pc = "cancelling"
    /\ \A k \in 1..Len(tasks) : Finished(tasks[k])
    /\ orch' = [orch EXCEPT !.pc = "loop",
                            !.batches_timed_out = @ + 1,
                            !.total_failed = @ + Len(tasks),
                            !.total_processed = @ + Len(tasks),
                            !.current_index = @ + Len(tasks),
                            !.contacts_since_refresh = @ + Len(tasks)]
    /\ tasks' = <<>>
    /\ UNCHANGED <<contacts, store, semaphore, minted, call>>

\* Line 772 false, then lines 912-920.
LoopExit ==
    /\ orch.pc = "loop"
    /\ orch.current_index >= Len(orch.filtered_contacts)
    /\ orch' = CloseSession(orch)
    /\ UNCHANGED <<contacts, store, tasks, semaphore, minted, call>>

\* The caller runs the batch processor again on the same contact list.  Nothing
\* holds a token or a permit of the earlier run, so their counts start afresh.
NextRun ==
    /\ orch.pc \in {"done", "aborted"}
    /\ orch.run < MaxRuns
    /\ orch' = [IdleOrch(orch.run + 1, orch.MAX_CONCURRENT_WORKERS)
                   EXCEPT !.marked_initially = orch.marked_initially,
                          !.previous = orch.pc]
    /\ tasks' = <<>>
    /\ semaphore' = 0
    /\ minted' = 0
    /\ UNCHANGED <<contacts, store, call>>

(***************************************************************************)
(* The contact lists and sheets the runs start from                        *)
(***************************************************************************)
ContactPool == <<
    [website |-> "example.com", email |-> "a@b.com"],
    [website |-> "https://c-d.org", email |-> "c@d.com"],
    [website |-> "bad.example", email |-> "not-an-email"] >>

\* the lists of 1..MaxContacts contacts, in the order of the pool
ContactLists ==
    UNION {{[i \in 1..n |-> ContactPool[f[i]]] :
               f \in {g \in [1..n -> 1..Len(ContactPool)] :
                         \A i \in 1..(n - 1) : g[i] <= g[i + 1]}} :
           n \in 1..MaxContacts}

LeadsHeader == <<"Link", "Email", "Emailed?">>

\* One row per contact; a row whose Emailed? cell is empty comes back short.
\* The list is what the caller posts (flask_app.py, send_emails_post): it is not
\* filtered again, so it can name rows that are marked by now.
Sheets(cs) ==
    {<<LeadsHeader>> \o [i \in 1..Len(cs) |->
                            IF flagged[i]
                            THEN <<cs[i].website, cs[i].email, "True">>
                            ELSE <<cs[i].website, cs[i].email>>] :
        flagged \in [1..Len(cs) -> BOOLEAN]}

NoCall == [fn |-> "none", arg |-> "", ret |-> "none"]

\* One run of the batch processor on a list of contacts taken from the sheet.
\* largest sum of the list's length and the worker limit
MaxLoad == 4

Init ==
    /\ contacts \in ContactLists
    /\ store \in Sheets(contacts)
    /\ \E workers \in 1..MaxWorkers :
           /\ Len(contacts) + workers <= MaxLoad
           /\ orch = IdleOrch(1, workers)
    /\ tasks = <<>>
    /\ semaphore = 0
    /\ minted = 0
    /\ call = NoCall

Workers(FetchSet, DraftSet, PipeSet, StoreSet) ==
    \/ \E k \in 1..MaxContacts, so1 \in StoreSet, so2 \in StoreSet :
           Enter(k, so1, so2)
    \/ \E k \in 1..MaxContacts, resp \in FetchSet, pipe \in PipeSet, so \in StoreSet :
           FetchResp(k, resp, pipe, so)
    \/ \E k \in 1..MaxContacts, resp \in DraftSet, tok \in TokenOutcomes, so \in StoreSet :
           DraftResp(k, resp, tok, so)
    \/ \E k \in 1..MaxContacts : FinalSleep(k)

Orchestrator ==
    \/ \E tok \in TokenOutcomes : StartRun(tok)
    \/ \E healthy \in BOOLEAN, tok \in TokenOutcomes, sheets \in BOOLEAN :
           Checkpoint(healthy, tok, sheets)
    \/ StartBatch
    \/ BatchTimeout
    \/ TimeoutHandled
    \/ GatherDone
    \/ LoopExit

Next ==
    \/ Workers(BatchFetchResponses, BatchDraftResponses, {"ok"}, BatchStoreOutcomes)
    \/ Orchestrator

Spec == Init /\ [][Next]_vars

\* The event loop keeps running: the orchestrator goes on when it can, the
\* timer of wait_for fires if the batch has not finished, and the delay of a
\* finally clause ends.  Nothing is assumed of the requests of the workers: one
\* may stay unanswered for ever.
SpecLive ==
    /\ Spec
    /\ WF_vars(Orchestrator)
    /\ \A k \in 1..MaxContacts : WF_vars(FinalSleep(k))

(***************************************************************************)
(* Two runs of the batch processor on the same list, nothing else writing  *)
(* to the sheet in between.                                                *)
(***************************************************************************)
InitTwice ==
    /\ contacts \in ContactLists
    /\ store \in Sheets(contacts)
    /\ orch = IdleOrch(1, 1)
    /\ tasks = <<>>
    /\ semaphore = 0
    /\ minted = 0
    /\ call = NoCall

NextTwice ==
    \/ Next
    \/ NextRun

SpecTwice == InitTwice /\ [][NextTwice]_vars

(***************************************************************************)
(* One run in which the hosting environment may stop the script: its stop  *)
(* exception (a type whose name holds "streamlit" and "stop") is raised in *)
(* a worker at the point where the worker stands, and is caught by the     *)
(* nearest enclosing "except Exception".                                   *)
(***************************************************************************)
\* str(e) of the stop exception
StopText == ""

StopException == Resp("exception", 0, StopText)

\* Raised before the fetch (lines 574-591): caught at line 689, which returns
\* the sentinel.  Raised in the GET: caught at line 556 inside
\* fetch_website_with_retries.  Raised in the POST: caught at line 365 inside
\* create_draft_with_http_async.
StopRaised(k, so) ==
    /\ k \in 1..Len(tasks)
    /\ tasks[k].pc \in {"waiting", "fetching", "posting"}
    /\ tasks[k].pc = "waiting" => SemaphoreFree(semaphore) /\ so = "ok"
    /\ LET t == [tasks[k] EXCEPT
                    !.stop_raised = TRUE, !.last = StopException,
                    !.was_marked =
                        IF tasks[k].pc = "waiting"
                        THEN \E i \in RowsOf(store, tasks[k].email) : RowMarked(store, i)
                        ELSE @]
           r == CASE t.pc = "waiting" ->
                         << Conclude([t EXCEPT !.stage = "stopped"],
                                     Ret(FALSE, "SESSION_STOPPED", t.current_token),
                                     "none", FALSE, "ok"),
                            store >>
                  [] t.pc = "fetching" ->
                         FetchReturn(t, store,
                                     fetch_attempt(StopException, t.attempt, FETCH_MAX_RETRIES),
                                     "ok", so)
                  [] OTHER ->
                         DraftReturn(t, store,
                                     draft_attempt(StopException, t.attempt, t.current_token,
                                                   t.creds, "ok", minted + 1),
                                     so)
       IN  /\ tasks' = [tasks EXCEPT ![k] = r[1]]
           /\ store' = r[2]
    /\ semaphore' = IF tasks[k].pc = "waiting" THEN semaphore - 1 ELSE semaphore
    /\ UNCHANGED <<contacts, orch, minted, call>>

NextStop ==
    \/ Next
    \/ \E k \in 1..MaxContacts, so \in BatchStoreOutcomes : StopRaised(k, so)

SpecStop == Init /\ [][NextStop]_vars

(***************************************************************************)
(* A run long enough for several refresh checkpoints: one worker, every    *)
(* contact served without an error, so that only the orchestrator chooses. *)
(***************************************************************************)
\* most contacts of the long run
MaxLoopContacts == 5

LoopContacts(n) == [i \in 1..n |-> ContactPool[IF i % 2 = 1 THEN 1 ELSE 2]]

InitLoop ==
    /\ \E n \in 1..MaxLoopContacts :
           /\ contacts = LoopContacts(n)
           /\ store = <<LeadsHeader>> \o
                          [i \in 1..n |-> <<contacts[i].website, contacts[i].email>>]
    /\ orch = IdleOrch(1, 1)
    /\ tasks = <<>>
    /\ semaphore = 0
    /\ minted = 0
    /\ call = NoCall

NextLoop ==
    \/ Workers({Resp("status", 200, "<html>Acme Bakery</html>")},
               {Resp("status", 200, "")}, {"ok"}, {"ok"})
    \/ Orchestrator

SpecLoop == InitLoop /\ [][NextLoop]_vars

(***************************************************************************)
(* The long run with its three ways out: the loop ends, a task returns the *)
(* stop sentinel, or the orchestrator's own task is cancelled while it     *)
(* awaits a batch.                                                         *)
(***************************************************************************)
\* CancelledError is raised at line 827: it is no Exception, so no handler of
\* the loop catches it; wait_for cancels the gather and with it the tasks, and
\* the finally clause of lines 912-916 closes the session.
Interrupt ==
    /\ orch.pc = "gather"
    /\ tasks' = [k \in 1..Len(tasks) |->
                    CASE tasks[k].pc = "waiting" -> [tasks[k] EXCEPT !.pc = "cancelled"]
                      [] tasks[k].pc \in {"fetching", "posting"} ->
                             [tasks[k] EXCEPT !.pc = "cancel_sleep"]
                      [] tasks[k].pc = "final_sleep" -> [tasks[k] EXCEPT !.pc = "cancelled"]
                      [] OTHER -> tasks[k]]
    /\ semaphore' = semaphore + Cardinality({k \in 1..Len(tasks) : tasks[k].pc = "final_sleep"})
    /\ orch' = CloseSession(orch)
    /\ UNCHANGED <<contacts, store, minted, call>>

NextExit ==
    \/ NextLoop
    \/ \E k \in 1..MaxContacts : StopRaised(k, "ok")
    \/ Interrupt

SpecExit == InitLoop /\ [][NextExit]_vars

(***************************************************************************)
(* One call of process_contact on its own, with every answer the outside   *)
(* world can give.                                                         *)
(***************************************************************************)
\* most rows of the sheet of the single-call specification
MaxRows == 2

InitContact ==
    /\ contacts \in {cs \in ContactLists : Len(cs) <= MaxRows}
    /\ store \in Sheets(contacts)
    /\ orch = [IdleOrch(1, 1) EXCEPT !.pc = "direct", !.access_token = 1,
                                    !.session = 1, !.sessions_made = 1,
                                    !.sheets_service = 1]
    /\ \E i \in 1..Len(contacts) :
           tasks = << NewTask(i, [website |-> NormalizeWebsite(contacts[i].website),
                                  email |-> contacts[i].email], 1, 1, 1) >>
    /\ semaphore = 1
    /\ minted = 1
    /\ call = NoCall

NextContact ==
    Workers(FetchResponses, DraftResponses, PipelineOutcomes, StoreOutcomes)

SpecContact == InitContact /\ [][NextContact]_vars

(***************************************************************************)
(* Calls of is_transient_error                                             *)
(***************************************************************************)
ClassifyKeys == {"timeout", "503", "rate limit", "404", "invalid email"}
ClassifyPrefixes == {"", "HTTP ", "Client error: ", "Error creating draft: "}
ClassifySuffixes == {"", " error", " - Service Unavailable", " for url: https://example.com"}

ClassifyInputs ==
    {p \o k \o x : p \in ClassifyPrefixes, k \in ClassifyKeys, x \in ClassifySuffixes}
    \cup KnownMessages
    \cup {"", " ", "Timeout Error", "SSL handshake timeout", "Gateway Timeout (504)"}

InitClassify ==
    /\ contacts = <<>>
    /\ store = <<>>
    /\ orch = IdleOrch(0, 0)
    /\ tasks = <<>>
    /\ semaphore = 0
    /\ minted = 0
    /\ \E m \in ClassifyInputs :
           call = [fn |-> "is_transient_error", arg |-> m, ret |-> "pending"]

Classify ==
    /\ call.fn = "is_transient_error"
    /\ call.ret = "pending"
    /\ call' = [call EXCEPT !.ret = Classification(is_transient_error(call.arg))]
    /\ UNCHANGED <<contacts, store, orch, tasks, semaphore, minted>>

NextClassify == Classify

SpecClassify == InitClassify /\ [][NextClassify]_vars

(***************************************************************************)
(* One call of create_draft_with_http_async on its own: the recipient is   *)
(* valid or not, the refresh credentials are passed or not, and every POST *)
(* gets one of the answers below (aiohttp ends a POST after 120 s at the   *)
(* latest, with a timeout).                                                *)
(*   pc: validate   at the head of the first pass of the loop              *)
(*       posting    in session.post of the current attempt                 *)
(*       returned                                                          *)
(***************************************************************************)
DraftCallResponses ==
    DraftResponses \cup {Resp("status", 401, "Unauthorized")}

DraftRecipients == {"a@b.com", "not-an-email"}

\* requests: the answered POSTs, each with the bearer token it carried and the
\*           answer of the token endpoint when the pass asked for a refresh
\* sleeps:   the delays awaited between two POSTs
DraftCall(to_email, creds) ==
    [fn |-> "create_draft_with_http_async", arg |-> to_email, creds |-> creds,
     pc |-> "validate", attempt |-> 0, current_token |-> 1,
     requests |-> <<>>, sleeps |-> <<>>, ret |-> Ret(FALSE, "", 0)]

InitDraft ==
    /\ contacts = <<>>
    /\ store = <<>>
    /\ orch = IdleOrch(0, 0)
    /\ tasks = <<>>
    /\ semaphore = 0
    /\ minted = 1
    /\ \E to_email \in DraftRecipients, creds \in BOOLEAN :
           call = DraftCall(to_email, creds)

\* Lines 264-266: the recipient is validated before anything is sent.
DraftValidate ==
    /\ call.fn = "create_draft_with_http_async"
    /\ call.pc = "validate"
    /\ call' = IF is_valid_email(call.arg)
               THEN [call EXCEPT !.pc = "posting"]
               ELSE [call EXCEPT !.pc = "returned",
                                 !.ret = Ret(FALSE, "Invalid email format: " \o call.arg,
                                             call.current_token)]
    /\ UNCHANGED <<contacts, store, orch, tasks, semaphore, minted>>

\* The POST of the current attempt is answered; tok is the answer of the token
\* endpoint, asked on the passes that refresh.
DraftAnswer(resp, tok) ==
    /\ call.fn = "create_draft_with_http_async"
    /\ call.pc = "posting"
    /\ LET d == draft_attempt(resp, call.attempt, call.current_token, call.creds,
                              tok, minted + 1)
           d_ok == draft_attempt(resp, call.attempt, call.current_token, call.creds,
                                 "ok", minted + 1)
           sent == [resp |-> resp, token |-> call.current_token,
                    asked |-> d_ok.refreshed, fresh |-> IF d.refreshed THEN minted + 1 ELSE 0]
       IN  /\ tok # "ok" => d_ok.refreshed
           /\ call' = IF d.next = "retry"
                      THEN [call EXCEPT !.requests = Append(@, sent),
                                        !.attempt = @ + 1,
                                        !.current_token = d.token,
                                        !.sleeps = Append(@, draft_retry_delay(resp, call.attempt))]
                      ELSE [call EXCEPT !.requests = Append(@, sent),
                                        !.pc = "returned",
                                        !.ret = Ret(d.success, d.error, d.token)]
           /\ minted' = IF d.refreshed THEN minted + 1 ELSE minted
    /\ UNCHANGED <<contacts, store, orch, tasks, semaphore>>

NextDraft ==
    \/ DraftValidate
    \/ \E resp \in DraftCallResponses, tok \in TokenOutcomes : DraftAnswer(resp, tok)

\* every POST is answered: by the server, or by the 120 s timeout of the client
SpecDraft ==
    /\ InitDraft /\ [][NextDraft]_vars
    /\ WF_vars(NextDraft)

(***************************************************************************)
(* One call of fetch_website_with_retries(session, url, max_retries) on    *)
(* its own; every GET gets one of the answers below (the session ends a    *)
(* GET with a timeout at the latest).                                      *)
(*   pc: enter     before the loop                                         *)
(*       getting   in session.get of the current attempt                   *)
(*       returned                                                          *)
(***************************************************************************)
\* largest max_retries a call is made with
MaxFetchRetries == 2

FetchCallResponses ==
    FetchResponses \cup {
        Resp("status", 200, ""),
        Resp("status", 204, ""),
        Resp("status", 202, "Accepted"),
        Resp("status", 301, ""),
        Resp("status", 408, ""),
        Resp("status", 500, "") }

FetchUrls == {"example.com", "https://c-d.org"}

\* gets:   the answered GETs
\* sleeps: the delays awaited between two GETs
FetchCall(url, max_retries) ==
    [fn |-> "fetch_website_with_retries", arg |-> url, max_retries |-> max_retries,
     pc |-> "enter", url |-> url, attempt |-> 0, gets |-> <<>>, sleeps |-> <<>>,
     ret |-> [success |-> FALSE, content |-> "", error |-> ""]]

InitFetch ==
    /\ contacts = <<>>
    /\ store = <<>>
    /\ orch = IdleOrch(0, 0)
    /\ tasks = <<>>
    /\ semaphore = 0
    /\ minted = 0
    /\ \E url \in FetchUrls, max_retries \in -1..MaxFetchRetries :
           call = FetchCall(url, max_retries)

\* Lines 468-491: the URL gets its scheme and the loop is entered; a loop of no
\* pass falls through to the last return.
FetchBegin ==
    /\ call.fn = "fetch_website_with_retries"
    /\ call.pc = "enter"
    /\ LET url == IF StartsWith(call.arg, "http://") \/ StartsWith(call.arg, "https://")
                  THEN call.arg ELSE "https://" \o call.arg
       IN  call' = IF call.max_retries + 1 > 0
                   THEN [call EXCEPT !.url = url, !.pc = "getting"]
                   ELSE [call EXCEPT !.url = url, !.pc = "returned",
                                     !.ret = [success |-> FALSE, content |-> "",
                                              error |-> "Failed to fetch after "
                                                  \o ToString(call.max_retries + 1)
                                                  \o " attempts. Last error: "]]
    /\ UNCHANGED <<contacts, store, orch, tasks, semaphore, minted>>

\* The GET of the current attempt is answered.
FetchAnswer(resp) ==
    /\ call.fn = "fetch_website_with_retries"
    /\ call.pc = "getting"
    /\ LET f == fetch_attempt(resp, call.attempt, call.max_retries)
       IN  call' = IF f.next = "retry"
                   THEN [call EXCEPT !.gets = Append(@, resp),
                                     !.attempt = @ + 1,
                                     !.sleeps = Append(@, FETCH_RETRY_DELAY)]
                   ELSE [call EXCEPT !.gets = Append(@, resp),
                                     !.pc = "returned",
                                     !.ret = [success |-> f.success, content |-> f.content,
                                              error |-> f.error]]
    /\ UNCHANGED <<contacts, store, orch, tasks, semaphore, minted>>

NextFetch ==
    \/ FetchBegin
    \/ \E resp \in FetchCallResponses : FetchAnswer(resp)

\* every GET is answered: by the server, or by the timeout of the session
SpecFetch ==
    /\ InitFetch /\ [][NextFetch]_vars
    /\ WF_vars(NextFetch)

(***************************************************************************)
(* One call of create_customized_email(website, email, page_content,       *)
(* notes) on its own.                                                      *)
(*   pc: analyze    in analyze_website_content_with_notes                  *)
(*       template   at the lookup of line 265                              *)
(*       customize  past the lookup                                        *)
(*       handler    in the except clause of line 297                       *)
(*       returned / raised                                                 *)
(***************************************************************************)
UpperChar(c) ==
    IF \E k \in 1..26 : LowerCase[k] = c
    THEN UpperCase[CHOOSE k \in 1..26 : LowerCase[k] = c]
    ELSE c

\* str.capitalize()
capitalize(s) ==
    IF s = "" THEN "" ELSE UpperChar(CharAt(s, 1)) \o lower(SubSeq(s, 2, Len(s)))

\* str.find(p) + 1: the place of the first p in s, 0 when there is none
Find(s, p) ==
    LET hits == {i \in 1..(Len(s) - Len(p) + 1) : SubSeq(s, i, i + Len(p) - 1) = p}
    IN  IF hits = {} THEN 0 ELSE CHOOSE i \in hits : \A j \in hits : i <= j

\* str.split(sep)
RECURSIVE split(_, _)
split(s, sep) ==
    LET i == Find(s, sep)
    IN  IF i = 0 THEN <<s>>
        ELSE <<SubSeq(s, 1, i - 1)>> \o split(SubSeq(s, i + Len(sep), Len(s)), sep)

\* sep.join(parts)
RECURSIVE join(_, _)
join(sep, parts) ==
    IF parts = <<>> THEN ""
    ELSE IF Len(parts) = 1 THEN parts[1]
    ELSE parts[1] \o sep \o join(sep, Tail(parts))

\* urlparse(url).netloc for the http and https URLs and for URLs of no scheme
netloc(url) ==
    IF StartsWith(url, "http://") \/ StartsWith(url, "https://")
    THEN LET rest == SubSeq(url, Find(url, "//") + 2, Len(url))
         IN  split(split(split(rest, "/")[1], "?")[1], "#")[1]
    ELSE ""

\* Lines 338-348: the business name taken from the domain of the URL
UrlBusinessName(url) ==
    LET parts == split(netloc(url), ".")
        domain_parts == IF parts[1] = "www" THEN Tail(parts) ELSE parts
        last == split(url, "//")
    IN  IF domain_parts = <<>>
        THEN split(last[Len(last)], "/")[1]
        ELSE LET words == split(domain_parts[1], "-")
             IN  join(" ", [k \in 1..Len(words) |-> capitalize(words[k])])

\* the keys of EMAIL_TEMPLATES
TemplateKeys ==
    {"coworking", "event_space", "community_center", "fitness_center", "art_studio",
     "brewery", "music_venue", "wellness_center", "bookstore", "farm", "community_garden"}

\* EMAIL_TEMPLATES[key]: the entry, or a KeyError whose text is the quoted key
TemplateLookup(key) == IF key \in TemplateKeys THEN "found" ELSE "'" \o key \o "'"

\* _llm and the parse of its answer in the analyze stage: an analysis, None,
\* an answer that does not parse, or an exception of the request
LlmOutcomes == {"parsed", "null", "unparsable", "raises"}

PipelineWebsites ==
    {"https://acme-bakery.com", "https://www.example.org/about", "http://c-d.org",
     "https://www", "example.com"}

PipelineNotes == {"", "Met the owner at the spring fair"}

PipelineCall(website, notes) ==
    [fn |-> "create_customized_email", arg |-> website, notes |-> notes,
     pc |-> "analyze", llm |-> "none", business_name |-> "", caught |-> "",
     ret |-> [subject |-> "", content |-> ""], raised |-> ""]

InitPipeline ==
    /\ contacts = <<>>
    /\ store = <<>>
    /\ orch = IdleOrch(0, 0)
    /\ tasks = <<>>
    /\ semaphore = 0
    /\ minted = 0
    /\ \E website \in PipelineWebsites, notes \in PipelineNotes :
           call = PipelineCall(website, notes)

\* Lines 261, 334-397: the analysis comes back, with the name the model gave or,
\* on any failure of the stage, the name taken from the URL.
Analyze(llm) ==
    /\ call.fn = "create_customized_email"
    /\ call.pc = "analyze"
    /\ call' = [call EXCEPT !.pc = "template", !.llm = llm,
                            !.business_name = IF llm = "parsed" THEN "Acme Bakery"
                                              ELSE UrlBusinessName(call.arg)]
    /\ UNCHANGED <<contacts, store, orch, tasks, semaphore, minted>>

\* Line 265: template = EMAIL_TEMPLATES["community"]; the KeyError is caught
\* by the except clause of line 297.
SelectTemplate ==
    /\ call.fn = "create_customized_email"
    /\ call.pc = "template"
    /\ call' = IF TemplateLookup("community") = "found"
               THEN [call EXCEPT !.pc = "customize"]
               ELSE [call EXCEPT !.pc = "handler", !.caught = TemplateLookup("community")]
    /\ UNCHANGED <<contacts, store, orch, tasks, semaphore, minted>>

\* Lines 297-301: the handler looks the template up again, before it builds
\* anything; a KeyError raised here leaves the function.
Fallback ==
    /\ call.fn = "create_customized_email"
    /\ call.pc = "handler"
    /\ call' = IF TemplateLookup("community") = "found"
               THEN [call EXCEPT !.pc = "fallback"]
               ELSE [call EXCEPT !.pc = "raised", !.raised = TemplateLookup("community")]
    /\ UNCHANGED <<contacts, store, orch, tasks, semaphore, minted>>

NextPipeline ==
    \/ \E llm \in LlmOutcomes : Analyze(llm)
    \/ SelectTemplate
    \/ Fallback

SpecPipeline == InitPipeline /\ [][NextPipeline]_vars

(***************************************************************************)
(* update_lead_emailed_status on its own: the call is made, and made again *)
(* with the same email, on a leads sheet of any shape.                     *)
(***************************************************************************)
\* header rows: the usual one, one without each of the two columns, and one
\* with the columns in another order
MarkHeaders == {
    <<"Link", "Email", "Emailed?">>,
    <<"Link", "Email">>,
    <<"Link", "Emailed?">>,
    <<"Emailed?", "Email", "Notes">> }

\* rows as values().get returns them: trailing empty cells are left out
MarkRows == {
    <<"example.com", "a@b.com">>,
    <<"example.com", "a@b.com", "True">>,
    <<"c-d.org", "c@d.com", "true">>,
    <<"", "c@d.com", "", "call back">>,
    <<"c-d.org">>,
    <<>> }

MarkEmails == {"a@b.com", "c@d.com", "e@f.com"}

\* the sheets of a header and up to MaxRows rows, and the empty sheet
MarkTables ==
    {<<>>} \cup
    UNION {{<<h>> \o rows : rows \in [1..n -> MarkRows]} :
              h \in MarkHeaders, n \in 0..MaxRows}

\* read: the table the first call read;  once: the sheet after the first call
MarkCall(email, table) ==
    [fn |-> "update_lead_emailed_status", arg |-> email, pc |-> "first",
     read |-> table, once |-> <<>>]

InitMark ==
    /\ contacts = <<>>
    /\ orch = IdleOrch(0, 0)
    /\ tasks = <<>>
    /\ semaphore = 0
    /\ minted = 0
    /\ store \in MarkTables
    /\ \E email \in MarkEmails : call = MarkCall(email, store)

\* create_zoho_drafts.py lines 340-381, the first call
MarkOnce ==
    /\ call.fn = "update_lead_emailed_status"
    /\ call.pc = "first"
    /\ store' = update_lead_emailed_status(store, call.arg)
    /\ call' = [call EXCEPT !.pc = "second", !.once = store']
    /\ UNCHANGED <<contacts, orch, tasks, semaphore, minted>>

\* the same call once more
MarkTwice ==
    /\ call.fn = "update_lead_emailed_status"
    /\ call.pc = "second"
    /\ store' = update_lead_emailed_status(store, call.arg)
    /\ call' = [call EXCEPT !.pc = "returned"]
    /\ UNCHANGED <<contacts, orch, tasks, semaphore, minted>>

NextMark ==
    \/ MarkOnce
    \/ MarkTwice

SpecMark == InitMark /\ [][NextMark]_vars

(***************************************************************************)
(* Properties                                                              *)
(***************************************************************************)
TaskIds == 1..Len(tasks)

\* process_contact has computed its result tuple
Concluded(t) == t.pc \in {"final_sleep", "done"}

AnyRowMarked(table, email) == \E i \in RowsOf(table, email) : RowMarked(table, i)
AllRowsMarked(table, email) ==
    /\ RowsOf(table, email) # {}
    /\ \A i \in RowsOf(table, email) : RowMarked(table, i)

InSectionCount == Cardinality({k \in TaskIds : InSection(tasks[k])})

\* The failure that ended the attempt is of a kind the error taxonomy calls
\* transient: a timeout, a rate limit, a 5xx answer, an expired token.
TransientKind(t) ==
    /\ ~t.ret.success
    /\ \/ /\ t.stage \in {"fetch", "draft"}
          /\ t.last.kind = "timeout"
       \/ /\ t.stage \in {"fetch", "draft"}
          /\ t.last.kind = "status"
          /\ t.last.status = 429 \/ t.last.status >= 500
       \/ /\ t.stage = "pipeline"
          /\ Contains(lower(t.ret.error), "timeout")
       \/ /\ t.stage = "draft"
          /\ t.last.kind = "status" /\ t.last.status = 401
          /\ Contains(t.ret.error, "TokenExpiredError")

\* C1: in process_contact an attempt that ends in a failure of a transient kind
\* (timeout, rate limit, 5xx, token expiry) from the fetch, the pipeline or the
\* dispatch is reported as transient and writes no mark: the contacted flag is
\* what it was before; so for a fetch answered 503 on every attempt.
C1_TransientFailureLeavesUnmarked ==
    \A k \in TaskIds :
        Concluded(tasks[k]) /\ TransientKind(tasks[k]) =>
            /\ tasks[k].classified = "transient"
            /\ ~tasks[k].marked
            /\ AnyRowMarked(store, tasks[k].email) <=> tasks[k].was_marked

\* the draft request succeeded, or the failure met was classified permanent
MarkDue(t) == (t.stage = "draft" /\ t.ret.success) \/ t.classified = "permanent"

C3_SecondRunNoDispatch ==
    orch.run = 2 /\ orch.previous = "done" => \A k \in TaskIds : tasks[k].posts = 0

\* C3 amended: in a run on the same list, no website fetch, pipeline call or
\* draft request is made for a contact whose email the store showed contacted
\* when the run began (so for every contact the first run left marked); a
\* contact the first run left unmarked is processed again.
C3_MarkedNeverReprocessed ==
    \A k \in TaskIds :
        tasks[k].email \in orch.marked_at_start =>
            tasks[k].gets = 0 /\ tasks[k].pipeline = 0 /\ tasks[k].posts = 0

\* in the second run a contact the first run marked is skipped as already emailed
C3_Witness ==
    /\ orch.run = 2
    /\ \E k \in TaskIds :
           /\ tasks[k].pc = "done"
           /\ tasks[k].stage = "already"
           /\ tasks[k].email \notin orch.marked_initially
           /\ tasks[k].email \in orch.marked_at_start
           /\ tasks[k].posts = 0

\* C4: is_transient_error answers transient for every message that contains
\* "timeout", "503" or "rate limit", and permanent for every message that
\* contains "404" or "invalid email".
C4_KeywordsDecide ==
    call.fn = "is_transient_error" /\ call.ret # "pending" =>
        /\ (Contains(call.arg, "timeout") \/ Contains(call.arg, "503")
               \/ Contains(call.arg, "rate limit")) => call.ret = "transient"
        /\ (Contains(call.arg, "404") \/ Contains(call.arg, "invalid email"))
               => call.ret = "permanent"

\* C5: at no time are more contacts inside the semaphore-guarded section of
\* process_contact, or more website fetches in flight, than the worker limit;
\* the permits out and the permits free add up to the limit, also while the
\* tasks of a timed-out batch are being cancelled.
C5_ConcurrencyBound ==
    /\ InSectionCount <= orch.MAX_CONCURRENT_WORKERS
    /\ Cardinality({k \in TaskIds : tasks[k].pc = "fetching"}) <= orch.MAX_CONCURRENT_WORKERS
    /\ semaphore >= 0
    /\ orch.pc \in {"loop", "start", "gather", "cancelling"} =>
           semaphore + InSectionCount = orch.MAX_CONCURRENT_WORKERS

\* every permit is out, one holder is fetching, and a contact still waits
C5_Witness ==
    /\ InSectionCount = orch.MAX_CONCURRENT_WORKERS
    /\ \E k \in TaskIds : tasks[k].pc = "fetching"
    /\ \E k \in TaskIds : tasks[k].pc = "waiting"

\* C6: after a run in which every contact was handled (no batch timed out, every
\* contact's worker returned success: a draft or "already emailed"), an email
\* of the run with more than one row has all its rows marked if any is.
C6_StoreConsistentAfterRun ==
    /\ orch.pc = "done"
    /\ orch.batches_timed_out = 0
    /\ orch.total_success = Len(orch.filtered_contacts)
    => \A c \in 1..Len(orch.filtered_contacts) :
           AnyRowMarked(store, orch.filtered_contacts[c].email)
               => AllRowsMarked(store, orch.filtered_contacts[c].email)

\* C7: when the already-contacted check of process_contact answers true, the
\* contact is skipped with no fetch, pipeline or draft request, and every row
\* that shares its email is marked contacted.
C7_AlreadyContactedConsolidates ==
    \A k \in TaskIds :
        Concluded(tasks[k]) /\ tasks[k].stage = "already" =>
            /\ tasks[k].ret.success
            /\ tasks[k].gets = 0 /\ tasks[k].pipeline = 0 /\ tasks[k].posts = 0
            /\ AllRowsMarked(store, tasks[k].email)

\* C8: after the batch processor ran on a list, every contact of the list with
\* a structurally invalid email is marked contacted in the store.
C8_InvalidEmailMarked ==
    orch.pc = "done" =>
        \A i \in 1..Len(contacts) :
            ~is_valid_email(contacts[i].email)
                => AllRowsMarked(store, contacts[i].email)

FetchEnded404(t) ==
    Concluded(t) /\ t.stage = "fetch" /\ t.last = Resp("status", 404, "")

C10_RefreshOnlyBetweenBatches ==
    [][minted' # minted => tasks = <<>>]_vars

\* C10 amended: the orchestrator's bearer token (access_token) is assigned only
\* while no worker of a batch is in flight: at the start, at a refresh
\* checkpoint, or when the results of a finished batch are read.  A worker that
\* refreshes the token on a 401 or a timeout of its draft request renews its
\* own copy only: no other worker's token and not the orchestrator's changes.
C10_SharedTokenSetBetweenBatches ==
    [][ /\ orch'.access_token # orch.access_token =>
               \A k \in TaskIds : tasks[k].pc = "done"
        /\ \A k \in TaskIds :
               (Len(tasks') = Len(tasks)
                    /\ tasks'[k].current_token # tasks[k].current_token) =>
                   /\ orch'.access_token = orch.access_token
                   /\ tasks[k].pc = "posting"
                   /\ \A j \in TaskIds \ {k} : tasks'[j] = tasks[j]
      ]_vars

\* a worker has refreshed its token while another worker's draft request is in
\* flight with the token the batch started with
C10_Witness ==
    \E k \in TaskIds, j \in TaskIds :
        /\ k # j
        /\ tasks[k].pc = "posting" /\ tasks[k].refreshes > 0
        /\ tasks[k].current_token # orch.access_token
        /\ tasks[j].pc = "posting"
        /\ tasks[j].current_token = orch.access_token

\* C11: a mark a worker of the batch has written stays in the store while the
\* other workers of the batch write theirs: whatever the interleaving, every
\* row of the email of every worker whose store update returned is marked.
C11_NoLostUpdate ==
    \A k \in TaskIds :
        tasks[k].marked => AllRowsMarked(store, tasks[k].email)

\* two workers of one batch, running side by side, have marked different emails
C11_Witness ==
    /\ orch.MAX_CONCURRENT_WORKERS >= 2
    /\ \E k \in TaskIds, j \in TaskIds :
           /\ tasks[k].email # tasks[j].email
           /\ tasks[k].marked /\ ~tasks[k].was_marked
           /\ tasks[j].marked /\ ~tasks[j].was_marked
           /\ AllRowsMarked(store, tasks[k].email)
           /\ AllRowsMarked(store, tasks[j].email)

\* some worker's request is answered or its store update runs in this step
WorkerActs ==
    \E k \in TaskIds :
        /\ Len(tasks') = Len(tasks)
        /\ \/ tasks'[k].gets # tasks[k].gets
           \/ tasks'[k].posts # tasks[k].posts
           \/ tasks'[k].pipeline # tasks[k].pipeline
           \/ tasks'[k].marked # tasks[k].marked

\* C12: a batch is started only when no worker of an earlier batch is left; the
\* orchestrator leaves a batch only when each of its workers has returned or,
\* after the timeout, has ended its cancellation; and once the timeout has
\* fired no worker issues a request or writes to the store.
C12_BatchesSequential ==
    [][ /\ (orch.pc # "gather" /\ orch'.pc = "gather") => tasks = <<>>
        /\ (tasks # <<>> /\ tasks' = <<>>) =>
               \A k \in TaskIds : tasks[k].pc \in {"done", "cancelled"}
        /\ (tasks # <<>> /\ tasks' = <<>> /\ orch.pc = "gather") =>
               \A k \in TaskIds : tasks[k].pc = "done"
        /\ orch.pc = "cancelling" => store' = store /\ ~WorkerActs
      ]_vars

\* a later batch is in flight after an earlier one was abandoned on its timeout
\* with a worker inside the semaphore
C12_Witness ==
    /\ orch.pc = "gather"
    /\ orch.batches_timed_out > 0
    /\ orch.current_index > 0
    /\ \E k \in TaskIds : tasks[k].pc \in {"fetching", "posting"}

\* C13: when the timeout of a batch has fired and its workers are cancelled,
\* every contact of the batch is counted once as processed and once as failed
\* (none as succeeded), the list position moves past the whole batch, and the
\* orchestrator is back at the head of its loop; with the event loop running,
\* a batch whose timeout fired always gets there.
C13_TimedOutBatchCounted ==
    /\ [][ orch.pc = "cancelling" /\ orch'.pc # "cancelling" =>
             /\ orch'.pc = "loop"
             /\ orch'.total_processed = orch.total_processed + Len(tasks)
             /\ orch'.total_failed = orch.total_failed + Len(tasks)
             /\ orch'.total_success = orch.total_success
             /\ orch'.current_index = orch.current_index + Len(tasks)
             /\ Len(tasks) >= 1
         ]_vars
    /\ (orch.pc = "cancelling") ~> (orch.pc = "loop")

\* a batch of two contacts timed out, one of them already returned, and the
\* run went on to its end
C13_Witness ==
    /\ orch.pc = "done"
    /\ orch.batches_timed_out = 1
    /\ orch.total_failed >= 2
    /\ orch.total_processed = Len(orch.filtered_contacts)
    /\ Len(orch.filtered_contacts) >= 3

Terminated == orch.pc \in {"done", "aborted"}

\* C14: the run of the orchestrator ends, whatever the workers meet and even if
\* a request is never answered; each pass of the loop moves the list position
\* forward by the size of its batch, which is at least 1; and at the end every
\* valid contact has been handed to a worker once, in list order.
C14_RunTerminates ==
    /\ <>Terminated
    /\ [][ (tasks # <<>> /\ tasks' = <<>>) =>
               /\ Len(tasks) >= 1
               /\ orch'.current_index = orch.current_index + Len(tasks)
               /\ orch'.pc = "loop"
         ]_vars
    /\ [](orch.pc = "done" =>
              orch.handed = [i \in 1..Len(orch.filtered_contacts) |-> i])

\* the run ended although a worker failed, a batch timed out with a request
\* still unanswered, and a later batch was processed
C14_Witness ==
    /\ orch.pc = "done"
    /\ orch.batches_timed_out >= 1
    /\ orch.total_success >= 1
    /\ orch.total_failed >= 2
    /\ Len(orch.handed) = 3

\* the contacts of the list with a structurally valid email
ValidContacts == {i \in 1..Len(contacts) : is_valid_email(contacts[i].email)}

\* C15: at all times total_processed = total_success + total_failed; between two
\* batches total_processed is the list position; and when the run has ended
\* total_processed is the number of contacts with a valid email, each counted
\* once as succeeded or failed, in whatever order the workers returned and also
\* when a batch timed out.
C15_CountsAddUp ==
    /\ orch.total_processed = orch.total_success + orch.total_failed
    /\ orch.pc \in {"loop", "start", "gather", "cancelling"} =>
           orch.total_processed = orch.current_index
    /\ orch.pc = "done" =>
           orch.total_processed = Cardinality(ValidContacts)

\* a run on a list with an invalid email ended with one contact succeeded and
\* one failed
C15_Witness ==
    /\ orch.pc = "done"
    /\ Cardinality(ValidContacts) < Len(contacts)
    /\ orch.total_success = 1
    /\ orch.total_failed = 1
    /\ orch.total_processed = 2

\* the store update was called (it returned or raised)
MarkCalled(t) == t.marked \/ t.mark_failed

\* the answer to the GET was a 2xx with content
FetchSucceeded(resp) ==
    /\ resp.kind = "status" /\ resp.status >= 200 /\ resp.status < 300
    /\ resp.text # "" /\ ~IsBlank(resp.text)

\* The stages before the store update, each entered only after the ones before
\* it succeeded, and an outcome at every exit.
EarlierStagesInOrder(t) ==
    /\ t.gets > 0 => is_valid_email(t.email) /\ ~t.was_marked
    /\ t.pipeline > 0 => t.gets > 0 /\ t.stage \notin {"validate", "store", "already", "fetch"}
    /\ t.posts > 0 => t.pipeline = 1 /\ t.stage # "pipeline"
    /\ (t.pc = "posting" /\ t.posts = 1) => FetchSucceeded(t.last)
    /\ (Concluded(t) /\ t.stage = "already") =>
           /\ t.ret.success /\ t.ret.error = "Already emailed"
           /\ t.gets = 0 /\ t.pipeline = 0 /\ t.posts = 0 /\ ~MarkCalled(t)
    /\ Concluded(t) => t.ret.success \/ t.ret.error # ""
    /\ (Concluded(t) /\ t.ret.success) => t.stage \in {"already", "draft"}

DraftReturned == call.fn = "create_draft_with_http_async" /\ call.pc = "returned"

\* the i-th POST of the call was answered 401
Answered401(i) ==
    /\ call.requests[i].resp.kind = "status"
    /\ call.requests[i].resp.status = 401

\* the pass of the i-th POST had credentials and budget for a refresh
CanRefresh(i) == call.creds /\ i - 1 < max_api_retries

\* the token the call holds after its i-th pass
TokenAfter(i) ==
    IF i < Len(call.requests) THEN call.requests[i + 1].token
    ELSE IF call.pc = "returned" THEN call.ret.token ELSE call.current_token

\* the call went on to another POST after its i-th
WentOn(i) == i < Len(call.requests) \/ call.pc = "posting"

\* the last token a refresh of this call obtained, 0 when there was none
LastFresh ==
    LET got == {call.requests[i].fresh : i \in 1..Len(call.requests)}
    IN  CHOOSE m \in got \cup {0} : \A n \in got : n <= m

\* a 401 with credentials and budget: refreshed, and retried with the new token
RefreshedAndRetried ==
    \A i \in 1..Len(call.requests) :
        Answered401(i) /\ CanRefresh(i) /\ call.requests[i].fresh # 0 =>
            WentOn(i) /\ TokenAfter(i) = call.requests[i].fresh

\* the caller gets the refreshed token whenever a refresh succeeded
ReturnsRefreshedToken ==
    DraftReturned /\ LastFresh # 0 => call.ret.token = LastFresh

TokenExpiredPrefix == "TokenExpiredError: Gmail API token may have expired ("

\* C17 as stated: on a 401, a refresh and a retry with the new token when
\* credentials and budget allow; otherwise a failure with a "token expired"
\* error that is permanent; the returned token is the refreshed one.
C17_ExpiredTokenIsPermanent ==
    call.fn = "create_draft_with_http_async" =>
        /\ RefreshedAndRetried
        /\ \A i \in 1..Len(call.requests) :
               Answered401(i) /\ ~CanRefresh(i) =>
                   /\ i = Len(call.requests) /\ DraftReturned
                   /\ ~call.ret.success
                   /\ StartsWith(call.ret.error, TokenExpiredPrefix)
                   /\ ~is_transient_error(call.ret.error)
        /\ ReturnsRefreshedToken

\* C17, amended: on a 401 with credentials and budget the token is refreshed
\* and the request retried with the new token, or, when the refresh fails, the
\* call returns "Token refresh failed: ..." with the token it held; without
\* credentials or budget it returns "TokenExpiredError: Gmail API token may have
\* expired (...)", which is_transient_error takes as transient unless the text
\* of the response carries a permanent pattern; the returned token is the last
\* refreshed one whenever a refresh succeeded.
C17_ExpiredTokenIsTransient ==
    call.fn = "create_draft_with_http_async" =>
        /\ RefreshedAndRetried
        /\ \A i \in 1..Len(call.requests) :
               Answered401(i) /\ CanRefresh(i) /\ call.requests[i].fresh = 0 =>
                   /\ i = Len(call.requests) /\ DraftReturned
                   /\ ~call.ret.success
                   /\ StartsWith(call.ret.error, "Token refresh failed: ")
                   /\ call.ret.token = call.requests[i].token
        /\ \A i \in 1..Len(call.requests) :
               Answered401(i) /\ ~CanRefresh(i) =>
                   /\ i = Len(call.requests) /\ DraftReturned
                   /\ ~call.ret.success
                   /\ call.ret.error = TokenExpiredPrefix \o "Error creating draft: 401 - "
                                           \o call.requests[i].resp.text \o ")"
                   /\ is_transient_error(call.ret.error)
                          = ~MatchesAny(permanent_patterns, lower(call.requests[i].resp.text))
                   /\ call.ret.token = call.requests[i].token
        /\ ReturnsRefreshedToken

\* three 401 answers with credentials: two refreshes, then the failure that is
\* classified transient, returned with the second refreshed token
C17_Witness ==
    /\ DraftReturned
    /\ call.creds
    /\ Len(call.requests) = max_api_retries + 1
    /\ \A i \in 1..Len(call.requests) : Answered401(i)
    /\ call.requests[1].fresh # 0
    /\ call.requests[2].fresh # 0
    /\ call.ret.token = call.requests[2].fresh
    /\ is_transient_error(call.ret.error)

\* the i-th POST was answered with a server error
Answered5xx(i) ==
    /\ call.requests[i].resp.kind = "status"
    /\ call.requests[i].resp.status >= 500

AnsweredTimeout(i) == call.requests[i].resp.kind = "timeout"

\* the i-th POST was answered with a 4xx other than 401
AnsweredOther4xx(i) ==
    /\ call.requests[i].resp.kind = "status"
    /\ call.requests[i].resp.status \in 400..499
    /\ call.requests[i].resp.status # 401

\* error_msg as the pass of the given answer sets it
DraftErrorOf(resp) ==
    CASE resp.kind = "status" ->
             "Error creating draft: " \o ToString(resp.status) \o " - " \o resp.text
      [] resp.kind = "timeout" -> "Timeout error connecting to Gmail API: "
      [] OTHER -> "Error in create_draft_with_http_async: " \o resp.text

\* at most max_api_retries + 1 requests, and the last allowed one ends the call
\* with the last error when it fails
BoundedRequests ==
    /\ Len(call.requests) <= max_api_retries + 1
    /\ Len(call.requests) = max_api_retries + 1 =>
           /\ DraftReturned
           /\ ~call.ret.success =>
                  Contains(call.ret.error, DraftErrorOf(call.requests[max_api_retries + 1].resp))

\* C18 as stated: at most 3 requests and the call returns; a further request
\* only after a 5xx (delay 3 s, then 6 s), a 401 with a successful refresh, or a
\* timeout; any other 4xx ends the call after that request with a failure.
C18_RetryOnlyOn5xx401Timeout ==
    /\ [](call.fn = "create_draft_with_http_async" =>
            /\ BoundedRequests
            /\ \A i \in 1..Len(call.requests) :
                   /\ WentOn(i) =>
                          \/ Answered5xx(i) /\ call.sleeps[i] = 3 * i
                          \/ Answered401(i) /\ call.requests[i].fresh # 0
                          \/ AnsweredTimeout(i)
                   /\ AnsweredOther4xx(i) =>
                          /\ i = Len(call.requests) /\ DraftReturned
                          /\ ~call.ret.success)
    /\ <>DraftReturned

\* C18, amended: at most 3 requests and the call returns; a further request
\* only after a 5xx (delay 3 s, then 6 s), after a timeout (same delay, the
\* token refreshed first when credentials are passed), or after an auth error
\* with a successful refresh (delay 2 s), an auth error being a 401 or any
\* other non-2xx answer whose error text contains "token"; every other answer
\* ends the call after that request, and so does a refresh that fails.
C18_RetryAlsoOnTokenText ==
    /\ [](call.fn = "create_draft_with_http_async" =>
            /\ BoundedRequests
            /\ \A i \in 1..Len(call.requests) :
                   LET q == call.requests[i]
                   IN  /\ WentOn(i) =>
                              \/ /\ IsAuthError(q.resp) /\ q.fresh # 0
                                 /\ call.sleeps[i] = 2
                              \/ /\ ~IsAuthError(q.resp) /\ Answered5xx(i)
                                 /\ call.sleeps[i] = 3 * i
                              \/ /\ AnsweredTimeout(i) /\ call.sleeps[i] = 3 * i
                                 /\ call.creds <=> q.fresh # 0
                       /\ AnsweredOther4xx(i) /\ ~IsAuthError(q.resp) =>
                              /\ i = Len(call.requests) /\ DraftReturned
                              /\ ~call.ret.success
                              /\ call.ret.error = DraftErrorOf(q.resp)
                       /\ q.asked /\ q.fresh = 0 =>
                              /\ i = Len(call.requests) /\ DraftReturned
                              /\ ~call.ret.success)
    /\ <>DraftReturned

\* a 503, then a 403 whose text names the token, then a timeout: three requests
\* with delays of 3 s and 2 s between them, and the timeout returned
C18_Witness ==
    /\ DraftReturned
    /\ call.creds
    /\ Len(call.requests) = max_api_retries + 1
    /\ Answered5xx(1)
    /\ AnsweredOther4xx(2)
    /\ AnsweredTimeout(3)
    /\ call.sleeps = <<3, 2>>
    /\ ~call.ret.success

(***************************************************************************)
(* fetch_website_with_retries, one call                                    *)
(***************************************************************************)
FetchReturned == call.fn = "fetch_website_with_retries" /\ call.pc = "returned"

\* the call went on to another GET after its i-th
FetchWentOn(i) == i < Len(call.gets) \/ call.pc = "getting"

\* the i-th GET ended the call with a failure
FetchEndedFailed(i) ==
    /\ i = Len(call.gets) /\ FetchReturned
    /\ ~call.ret.success /\ call.ret.content = "" /\ call.ret.error # ""

Is2xx(resp) == resp.kind = "status" /\ resp.status >= 200 /\ resp.status < 300

\* a 5xx, 408 or 429 answer
IsRetryStatus(resp) ==
    /\ resp.kind = "status"
    /\ resp.status >= 500 \/ resp.status \in {408, 429}

\* a 404, any other 4xx, or an exception other than the timeout
IsFinalFailure(resp) ==
    \/ resp.kind = "status" /\ resp.status \in 400..499 /\ resp.status \notin {408, 429}
    \/ resp.kind \in {"client_error", "exception"}

\* at most max_retries + 1 GETs, each retry after the fixed delay, and a failure
\* on the last allowed GET ends the call
BoundedGets ==
    /\ Len(call.gets) <= call.max_retries + 1
    /\ call.pc = "getting" => Len(call.gets) < call.max_retries + 1
    /\ \A i \in 1..Len(call.gets) : FetchWentOn(i) => call.sleeps[i] = FETCH_RETRY_DELAY
    /\ \A i \in 1..Len(call.gets) : IsFinalFailure(call.gets[i]) => FetchEndedFailed(i)

\* C19 as stated: at most max_retries + 1 GETs and the call returns; a further
\* GET (2 s later) only after a 5xx, 408, 429, an empty 2xx body or a timeout; a
\* 404, another 4xx or another exception ends the call with a failure; a 2xx
\* with a non-empty body ends it with success and the content.
C19_NonEmptyBodySucceeds ==
    /\ [](call.fn = "fetch_website_with_retries" =>
            /\ BoundedGets
            /\ \A i \in 1..Len(call.gets) :
                   LET resp == call.gets[i]
                   IN  /\ FetchWentOn(i) =>
                              \/ IsRetryStatus(resp)
                              \/ Is2xx(resp) /\ resp.text = ""
                              \/ resp.kind = "timeout"
                       /\ Is2xx(resp) /\ resp.text # "" =>
                              /\ i = Len(call.gets) /\ FetchReturned
                              /\ call.ret.success /\ call.ret.content = resp.text)
    /\ <>FetchReturned

\* C19, amended: the same, with a 2xx body counted as empty when it is empty
\* or holds nothing but whitespace, and as content when it holds any other
\* character; a failure on the last allowed GET returns the last error.
C19_BlankBodyIsEmpty ==
    /\ [](call.fn = "fetch_website_with_retries" =>
            /\ BoundedGets
            /\ \A i \in 1..Len(call.gets) :
                   LET resp == call.gets[i]
                   IN  /\ FetchWentOn(i) =>
                              \/ IsRetryStatus(resp)
                              \/ Is2xx(resp) /\ IsBlank(resp.text)
                              \/ resp.kind = "timeout"
                       /\ Is2xx(resp) /\ IsBlank(resp.text)
                              /\ i = Len(call.gets) /\ FetchReturned =>
                              /\ ~call.ret.success
                              /\ call.ret.error = "Received empty content"
                       /\ Is2xx(resp) /\ ~IsBlank(resp.text) =>
                              /\ i = Len(call.gets) /\ FetchReturned
                              /\ call.ret.success /\ call.ret.content = resp.text
                              /\ call.ret.error = "")
    /\ <>FetchReturned

\* max_retries = 2: a 503, a body of one space, then a page: three GETs, two
\* delays of 2 s, and the page returned
C19_Witness ==
    /\ FetchReturned
    /\ call.max_retries = 2
    /\ Len(call.gets) = 3
    /\ IsRetryStatus(call.gets[1])
    /\ Is2xx(call.gets[2]) /\ call.gets[2].text = " "
    /\ call.sleeps = <<FETCH_RETRY_DELAY, FETCH_RETRY_DELAY>>
    /\ call.ret.success /\ call.ret.content = call.gets[3].text

(***************************************************************************)
(* create_customized_email, one call                                       *)
(***************************************************************************)
PipelineEnded ==
    call.fn = "create_customized_email" /\ call.pc \in {"returned", "raised"}

\* C20: when the LLM returns null in the analyze stage, create_customized_email
\* still returns a non-empty subject and a non-empty HTML body built with the
\* business name derived from the domain of the URL, and raises no exception.
C20_FallbackAfterNullAnalysis ==
    PipelineEnded /\ call.llm = "null" =>
        /\ call.pc = "returned"
        /\ call.ret.subject # ""
        /\ call.ret.content # ""
        /\ Contains(call.ret.subject, UrlBusinessName(call.arg))

(***************************************************************************)
(* Failures of the store connection and of the token endpoint              *)
(***************************************************************************)
\* a refresh of the token inside create_draft_with_http_async failed
RefreshFailed(t) ==
    \/ Contains(t.ret.error, "Token refresh failed: ")
    \/ Contains(t.ret.error, "Token refresh after timeout failed: ")

\* a call of the store raised while the contact was processed: the read of the
\* already-contacted check, or the write of the mark
StoreCallFailed(t) == t.stage = "store" \/ t.mark_failed

\* C21: a store-connectivity failure, or the failure to mint a token, met while
\* a contact is processed leaves process_contact as an exception for the
\* orchestrator: process_contact computes no ordinary result tuple for it.
C21_ProvisioningFailurePropagates ==
    \A k \in TaskIds :
        StoreCallFailed(tasks[k]) \/ RefreshFailed(tasks[k]) => ~Concluded(tasks[k])

(***************************************************************************)
(* The stop signal of the hosting environment                              *)
(***************************************************************************)
\* C22: a contact in whose processing the stop signal is raised is not marked
\* and its outcome is the sentinel SESSION_STOPPED, not an error; once the
\* orchestrator has found the sentinel it starts no further batch, marks no
\* further contact and has closed the session.
C22_StopIsCleanStop ==
    /\ \A k \in TaskIds :
           tasks[k].stop_raised /\ Concluded(tasks[k]) =>
               /\ tasks[k].ret.error = "SESSION_STOPPED"
               /\ ~tasks[k].marked
               /\ AnyRowMarked(store, tasks[k].email) <=> tasks[k].was_marked
    /\ orch.stopped =>
           /\ orch.pc = "done"
           /\ tasks = <<>>
           /\ orch.session \in orch.closed

(***************************************************************************)
(* The refresh checkpoint                                                  *)
(***************************************************************************)
\* the step is the refresh checkpoint of the orchestrator
CheckpointStep == orch.pc = "loop" /\ orch'.pc = "start"

\* the step starts a batch
BatchStartStep == orch.pc # "gather" /\ orch'.pc = "gather"

\* a batch starts with the counter at or past the interval only right after a
\* checkpoint, and the checkpoint runs with no worker in flight
CheckpointBeforeBatch ==
    /\ BatchStartStep =>
           orch.pc = "start" \/ orch.contacts_since_refresh < REFRESH_INTERVAL
    /\ CheckpointStep =>
           /\ orch.contacts_since_refresh >= REFRESH_INTERVAL
           /\ tasks = <<>> /\ tasks' = <<>>

Classified == call.fn = "is_transient_error" /\ call.ret # "pending"

MatchesPermanent(m) == MatchesAny(permanent_patterns, lower(m))
MatchesTransient(m) == MatchesAny(transient_patterns, lower(m))

\* C24: is_transient_error answers transient for an empty or whitespace-only
\* message, permanent for every other message that matches none of its
\* patterns, and permanent when a message matches both a permanent and a
\* transient pattern.
C24_DefaultsLeanPermanent ==
    Classified =>
        /\ IsBlank(call.arg) => call.ret = "transient"
        /\ ~IsBlank(call.arg) /\ ~MatchesPermanent(call.arg) /\ ~MatchesTransient(call.arg)
               => call.ret = "permanent"
        /\ ~IsBlank(call.arg) /\ MatchesPermanent(call.arg) /\ MatchesTransient(call.arg)
               => call.ret = "permanent"

\* "SSL handshake timeout" matches "ssl" and "timeout" and is classified
\* permanent
C24_Witness ==
    /\ Classified
    /\ call.arg = "SSL handshake timeout"
    /\ MatchesPermanent(call.arg) /\ MatchesTransient(call.arg)
    /\ call.ret = "permanent"

(***************************************************************************)
(* A token refresh that fails inside create_draft_with_http_async          *)
(***************************************************************************)
\* the task can still send a request
CanStillRequest(t) == t.pc \in {"waiting", "fetching", "posting"}

\* the step in which the refresh asked by task k fails
RefreshFailsIn(k) ==
    /\ k \in 1..Len(tasks) /\ k \in 1..Len(tasks')
    /\ ~tasks[k].refresh_failed
    /\ tasks'[k].refresh_failed

\* C25: a token refresh that fails inside create_draft_with_http_async ends the
\* call: the task sends no further request, the refresh failure is the error
\* of this contact's result, which is a failure; the step touches neither the
\* other tasks of the batch nor the orchestrator, which goes on with them.
C25_RefreshFailureEndsContact ==
    /\ [](\A k \in TaskIds :
             tasks[k].refresh_failed =>
                 /\ ~CanStillRequest(tasks[k])
                 /\ tasks[k].stage = "draft"
                 /\ ~tasks[k].ret.success
                 /\ RefreshFailed(tasks[k])
                 /\ ~orch.stopped)
    /\ [][\A k \in 1..MaxContacts :
             RefreshFailsIn(k) =>
                 /\ orch' = orch
                 /\ Len(tasks') = Len(tasks)
                 /\ \A j \in 1..Len(tasks) : j # k => tasks'[j] = tasks[j]]_vars

\* a batch of two: the refresh of the first contact failed, the draft of the
\* second was created, and the orchestrator has counted both
C25_Witness ==
    /\ orch.pc = "gather"
    /\ Len(tasks) = 2
    /\ tasks[1].refresh_failed /\ tasks[1].pc = "done"
    /\ tasks[2].ret.success /\ tasks[2].pc = "done"

(***************************************************************************)
(* The filter on the input list                                            *)
(***************************************************************************)
HasValidEmail(c) == is_valid_email(c.email)

\* the contacts of the input whose email is valid, in the order of the input
ValidInOrder == SelectSeq(contacts, HasValidEmail)

\* the run has passed the filter
Filtered == orch.pc \notin {"idle", "aborted"}

\* C26: the orchestrator keeps exactly the contacts whose email passes
\* is_valid_email, in the order of the input; no other contact is handed to a
\* worker or counted; when no contact is kept the run ends with no session
\* created and no batch started.
C26_OnlyValidContactsProcessed ==
    Filtered =>
        /\ Len(orch.filtered_contacts) = Len(ValidInOrder)
        /\ \A j \in 1..Len(ValidInOrder) :
               orch.filtered_contacts[j].email = ValidInOrder[j].email
        /\ \A j \in 1..Len(orch.handed) :
               /\ orch.handed[j] \in 1..Len(ValidInOrder)
               /\ orch.handed[j] = j
        /\ \A k \in TaskIds :
               /\ is_valid_email(tasks[k].email)
               /\ tasks[k].email = ValidInOrder[tasks[k].i].email
        /\ orch.total_processed <= Len(ValidInOrder)
        /\ orch.total_processed = orch.total_success + orch.total_failed
        /\ ValidInOrder = <<>> =>
               /\ orch.pc = "done"
               /\ orch.sessions_made = 0
               /\ orch.handed = <<>>
               /\ tasks = <<>>

\* a list of two valid contacts and an invalid one: the run ends with two
\* contacts handed out and counted
C26_Witness ==
    /\ orch.pc = "done"
    /\ Len(contacts) = 3
    /\ Len(ValidInOrder) = 2
    /\ ValidInOrder[1].email # ValidInOrder[2].email
    /\ orch.handed = <<1, 2>>
    /\ orch.total_processed = 2

(***************************************************************************)
(* The contacted flag only ever goes up                                    *)
(***************************************************************************)
\* the Email cell of row i, empty when the row is too short to have one
EmailCell(table, i) ==
    IF IndexOf(table[1], "Email") \in 1..Len(table[i])
    THEN table[i][IndexOf(table[1], "Email")] ELSE ""

\* C27: no step of a run (the already-contacted check, a mark, a batch, its
\* timeout, the cancellation of its tasks) takes the contacted flag of a row
\* from true to not true, deletes a row, or changes the email of a row.
C27_ContactedIsMonotonic ==
    [][/\ Len(store') = Len(store)
       /\ store'[1] = store[1]
       /\ \A i \in 2..Len(store) :
              /\ EmailCell(store', i) = EmailCell(store, i)
              /\ RowMarked(store, i) => RowMarked(store', i)]_vars

\* a run that met a batch timeout has ended: a row marked before the run is
\* still marked, and a row has been marked by the run
C27_Witness ==
    /\ orch.pc = "done"
    /\ orch.batches_timed_out > 0
    /\ \E i \in 2..Len(store) :
           EmailCell(store, i) \in orch.marked_initially /\ RowMarked(store, i)
    /\ \E i \in 2..Len(store) :
           EmailCell(store, i) \notin orch.marked_initially /\ RowMarked(store, i)

(***************************************************************************)
(* update_lead_emailed_status writes the contacted cells only              *)
(***************************************************************************)
MarkApplied ==
    call.fn = "update_lead_emailed_status" /\ call.pc \in {"second", "returned"}

\* cell j of a row, empty where the row ends before it
CellOf(row, j) == IF j \in 1..Len(row) THEN row[j] ELSE ""

\* the rows of the table read whose Email cell is the email of the call
MarkTargets ==
    IF call.read = <<>> \/ IndexOf(call.read[1], "Email") = 0 THEN {}
    ELSE {i \in 2..Len(call.read) :
             CellOf(call.read[i], IndexOf(call.read[1], "Email")) = call.arg}

\* the call returns before it writes
MarkWritesNothing ==
    \/ call.read = <<>>
    \/ IndexOf(call.read[1], "Email") = 0
    \/ IndexOf(call.read[1], "Emailed?") = 0
    \/ MarkTargets = {}

\* C28: update_lead_emailed_status(email) changes the contacted cell of the
\* rows whose email is the given one and nothing else: every other cell is
\* written back as read, a short row padded with empty strings to the width
\* of the header; with no such row, or without the Email or the Emailed?
\* column, the sheet is left as it was; a second call leaves the sheet as the
\* first call left it.
C28_MarkWritesFlagOnly ==
    MarkApplied =>
        /\ MarkWritesNothing => call.once = call.read
        /\ ~MarkWritesNothing =>
               /\ Len(call.once) = Len(call.read)
               /\ call.once[1] = call.read[1]
               /\ \A i \in 2..Len(call.read) :
                      /\ Len(call.once[i]) = Max(Len(call.read[i]), Len(call.read[1]))
                      /\ \A j \in 1..Len(call.once[i]) :
                             call.once[i][j] =
                                 IF i \in MarkTargets
                                    /\ j = IndexOf(call.read[1], "Emailed?")
                                 THEN "True"
                                 ELSE CellOf(call.read[i], j)
        /\ call.pc = "second" => store = call.once
        /\ call.pc = "returned" => store = call.once

\* the call was made twice on a sheet with a short row of another email and a
\* row of this email that was not marked
C28_Witness ==
    /\ MarkApplied /\ call.pc = "returned"
    /\ ~MarkWritesNothing
    /\ \E i \in MarkTargets : ~RowMarked(call.read, i) /\ RowMarked(store, i)
    /\ \E i \in 2..Len(call.read) :
           /\ i \notin MarkTargets
           /\ Len(call.read[i]) < Len(call.read[1])
           /\ Len(store[i]) = Len(call.read[1])

(***************************************************************************)
(* A refresh checkpoint that fails                                         *)
(***************************************************************************)
\* the step is a checkpoint in which the renewal of the token or of the store
\* handle raised
FailedCheckpointStep == CheckpointStep /\ ~orch'.refreshed_at_checkpoint

SessionsMade == 1..orch.sessions_made

\* the function has returned after it created a session
ReturnedWithSession == orch.pc = "done" /\ orch.sessions_made > 0

\* the function is past the creation of the session and has not returned
Running == orch.pc \in {"loop", "start", "gather", "cancelling"}

====
